---------------------------- MODULE Spec2Model ----------------------------
(***************************************************************************)
(* Model of the FreqForm audio engine core: the Scheduler (transport,      *)
(* pending heap, active list, loop region), its TempoClock, the tracks it  *)
(* mixes and the SPSC command queue between the control thread (producer)  *)
(* and the realtime thread (Scheduler::next_samples).                      *)
(*                                                                         *)
(* Numbers: frames and ticks are naturals.  samples_per_tick is the        *)
(* rational sample_rate*60 / (bpm*ticks_per_beat), kept as num/den; the    *)
(* clock's sample_position is kept multiplied by den.  The tempo settings  *)
(* used are ones for which the f64 computation of the source is exact.     *)
(* Samples are small integers (their f32 sums are exact).                  *)
(***************************************************************************)
EXTENDS Integers, Sequences, FiniteSets, TLC

(***************************************************************************)
(* Bounds of the model                                                     *)
(***************************************************************************)
\* capacity of the rtrb ring buffer (RingBuffer::new(capacity))
Capacity == 2
\* fills are taken only while current_frame + frame_size <= MaxFrame
MaxFrame == 4
\* the control thread has at most MaxPushes commands to send (a command whose
\* push fails is handed back and may be pushed again), unless it is Endless
MaxPushes == 3
\* commands the control thread of a playing session (InitMix) has left
MixPushes == 2
\* a TempoClock used on its own is advanced by at most MaxClockFrames frames
\* between two resets
MaxClockFrames == 600
\* clips a TimelineTrack is given (TimelineSpec)
MaxClips == 3
\* largest tick the Quantizer is given (QuantSpec)
MaxQuantTick == 16
\* longest clip and fade compute_fade_gain is applied to on its own (FadeSpec)
MaxFadeFrames == 4

(***************************************************************************)
(* Inputs                                                                  *)
(***************************************************************************)
\* TickResolution::PPQN(val)
PPQN(val) == [kind |-> "PPQN", val |-> val]

\* arguments of TempoClock::new in the construction of the scheduler
InitialTempo == [bpm |-> 120, sample_rate |-> 10, resolution |-> PPQN(2)]

\* SetTempo payloads the producer may send
TempoChoices == { [bpm |-> 60, resolution |-> PPQN(2)] }

\* LoopOptions {bar, beat, tick}
BBT(bar, beat, tick) == [bar |-> bar, beat |-> beat, tick |-> tick]
LoopStartChoices == { BBT(1, 1, 1), BBT(1, 1, 2) }
LoopEndChoices == { BBT(1, 1, 2), BBT(1, 2, 1) }

\* frame_size values of next_samples
FrameSizes == { 1, 2 }

\* start_frame values of ScheduleTrack
StartFrames == { 0, 1, 3 }

\* the tracks the control thread builds: a ConstantTrack and a WavTrack
ConstantTrack(tid, l, r) ==
    [tid |-> tid, kind |-> "Constant", samples |-> << <<l, r>> >>, position |-> 0]
WavTrack(tid, samples) ==
    [tid |-> tid, kind |-> "Wav", samples |-> samples, position |-> 0]
\* GainPanTrack::new(inner, gain, pan) with the id it drew
GainPanTrack(tid, inner, gain, pan) ==
    [tid |-> tid, kind |-> "GainPan", inner |-> inner, gain |-> gain, pan |-> pan]
TrackPool == { ConstantTrack(1, 1, 1), WavTrack(2, << <<2, 2>> >>) }
TrackIds == { t.tid : t \in TrackPool }

\* the tracks of a session that is already playing (see InitMix): the two of
\* TrackPool and a GainPanTrack around a GainPanTrack around a ConstantTrack
MixPool ==
    TrackPool
    \cup { GainPanTrack(3, GainPanTrack(4, ConstantTrack(5, 4, 4), 1, 0), 1, 0) }
\* ParameterChange::SetGain(val) / SetPan(val)
SetGain(val) == [kind |-> "SetGain", val |-> val]
SetPan(val) == [kind |-> "SetPan", val |-> val]
\* target ids and values of the ParamChange commands
ParamTargets == { 2, 3, 4 }
ParamChanges == { SetGain(2), SetPan(1) }
\* the start_frame values they were scheduled with
MixStartFrames == { 0, 1 }

\* arguments of TempoClock::new for a clock used on its own, each with the
\* value of sample_rate * ((60.0 / bpm) / ticks_per_beat as f64) in IEEE 754
\* binary64, written as <<hi, lo>> with value (hi * 2^28 + lo) * 2^-47:
\* 20.0 exactly, and 42.857142857142854, the double next below 300 / 7
ClockChoices ==
    { [bpm |-> 120, sample_rate |-> 80, resolution |-> PPQN(2),
       samples_per_tick |-> <<10485760, 0>>],
      [bpm |-> 140, sample_rate |-> 48000, resolution |-> [kind |-> "Quarter", val |-> 0],
       samples_per_tick |-> <<22469485, 191739611>>] }
\* arguments of the Quantizer: the QuantizeResolution values and the
\* ticks_per_beat of its tests
QuantizeResolutions == { "Quarter", "Eighth", "Sixteenth", "ThirtySecond" }
QuantTicksPerBeat == { 4, 8, 960 }
\* arguments of advance_by and values of the public field time_signature
AdvanceChoices == { 3, 128, 172, 300 }
TimeSignatures ==
    { [beats_per_bar |-> 4, beat_unit |-> 4], [beats_per_bar |-> 3, beat_unit |-> 4],
      [beats_per_bar |-> 6, beat_unit |-> 8], [beats_per_bar |-> 1, beat_unit |-> 4] }

\* arguments of Clip::new_audio, trim, move_to, slip, set_fade_in and
\* set_fade_out, and the windows of render_audio
ClipStarts == { 0, 1, 2 }
ClipDurations == { 0, 1, 2 }
ClipOffsets == { 0, 1 }
SlipDeltas == { -1, 1 }
FadeLengths == { 0, 1, 49 }
RenderStarts == { 0, 1, 2, 3 }
RenderCounts == { 1, 2 }
\* the tracks of a playing session that sends RestartTrack (see InitRestart):
\* the two of TrackPool and a GainPanTrack around a WavTrack of two frames
RestartPool ==
    TrackPool \cup { GainPanTrack(3, WavTrack(6, << <<4, 4>>, <<8, 8>> >>), 1, 0) }
\* target ids of the RestartTrack commands: a ConstantTrack, a WavTrack, a
\* GainPanTrack and the WavTrack inside it
RestartTargets == { 1, 2, 3, 6 }
\* every track identity of the model
AllTids == TrackIds \cup { t.tid : t \in MixPool \cup RestartPool }

VARIABLES
    \* ---- Scheduler fields
    scheduled,          \* pending heap: set of ScheduledTrack {track, start_frame}
    active_tracks,      \* Vec<Box<dyn Track>>
    current_frame,
    tempo_clock,
    looping_enabled,
    loop_points,        \* Option<LoopPoints>: "None" or a record
    loop_start_frame,
    loop_end_frame,
    transport_state,
    \* ---- command channel (rtrb ring buffer)
    automation_events,
    \* ---- control thread
    owned,              \* tracks built and not yet moved into a command
    push_result,        \* result of the producer's last push: "none" | "Ok" | "Full"
    pushes_left,        \* commands it may still send, or Endless
    \* ---- realtime thread: position inside next_samples
    pc,                 \* "idle" | "drain" | "return"
    frame_size,
    buffer,             \* the Vec returned by the last completed next_samples
    \* ---- observers (history of the run, not read by the program)
    accepted,           \* commands whose push returned Ok and that are not applied yet
    fifo_ok,            \* every popped command was the oldest accepted one
    entry_len,          \* number of commands queued when the current fill was entered
    entry_transport,    \* transport_state when the current fill was entered
    drained,            \* commands popped in the current fill (counted up to Capacity + 1)
    fill_frame,         \* current_frame when the current fill was entered / promoted
    promoted,           \* tids promoted by the current fill
    rendered,           \* tids whose fill_next_samples ran in the current fill
    tempo_run,          \* the equal SetTempo commands the current fill applied last (up to 2)
    start_of,           \* tid -> start_frame it was scheduled with (-1: not scheduled)
    cancelled,          \* tids that were pending or active when a Stop was applied
    rewound,            \* active tids that have been through a loop wrap
    \* ---- a TimelineTrack edited and rendered on its own (clip/mod.rs, track/timeline.rs)
    clips,              \* TimelineTrack.clips
    clips_made,         \* number of Clip::new_audio calls so far (the next clip id)
    out,                \* the output buffer after the last render_audio, <<>> once dropped
    out_start,          \* start_frame of that render_audio call
    render_status,      \* "none" | "ok" | "panic": how the last render_audio ended
    clip_op,            \* the last clip or timeline operation and its arguments
    \* ---- a TempoClock used on its own (transport/src/clock.rs), in f64 arithmetic
    clk,                \* the TempoClock
    total_frames,       \* frames the running clock was advanced by since new or the last reset
    tick_emitted,       \* what the last advance_by returned
    clock_op,           \* the last TempoClock operation
    \* ---- the Quantizer called on its own (transport/src/quantizer.rs)
    quantized           \* the last Quantizer call: its arguments and how it ended

sched_vars == <<scheduled, active_tracks, current_frame, tempo_clock, looping_enabled,
                loop_points, loop_start_frame, loop_end_frame, transport_state>>
producer_vars == <<owned, push_result, pushes_left>>
fill_vars == <<pc, frame_size, buffer>>
fill_observers == <<entry_len, entry_transport, drained, fill_frame,
                    promoted, rendered, tempo_run>>
observer_vars == <<accepted, fifo_ok, fill_observers, start_of, cancelled, rewound>>
clip_vars == <<clips, clips_made, out, out_start, render_status, clip_op>>
clock_vars == <<clk, total_frames, tick_emitted, clock_op>>
quant_vars == <<quantized>>
lib_vars == <<clip_vars, clock_vars, quant_vars>>
vars == <<sched_vars, automation_events, producer_vars, fill_vars, observer_vars, lib_vars>>


(***************************************************************************)
(* TempoClock  (transport/src/clock.rs, transport/src/resolution.rs)       *)
(***************************************************************************)
\* TickResolution::ticks_per_beat
ticks_per_beat(resolution) ==
    CASE resolution.kind = "Quarter"   -> 480
      [] resolution.kind = "Eighth"    -> 240
      [] resolution.kind = "Sixteenth" -> 120
      [] resolution.kind = "PPQN"      -> resolution.val

\* TempoClock::compute_samples_per_tick: sample_rate * (60 / bpm / ticks_per_beat)
compute_samples_per_tick(bpm, sample_rate, tpb) ==
    [num |-> sample_rate * 60, den |-> bpm * tpb]

\* TempoClock::with_signature
with_signature(bpm, sample_rate, resolution, time_signature) ==
    [bpm              |-> bpm,
     samples_per_tick |-> compute_samples_per_tick(bpm, sample_rate, ticks_per_beat(resolution)),
     sample_position  |-> 0,
     tick_counter     |-> 0,
     running          |-> TRUE,
     time_signature   |-> time_signature,
     ticks_per_beat   |-> ticks_per_beat(resolution),
     sample_rate      |-> sample_rate]

\* TempoClock::new: 4/4
TempoClockNew(bpm, sample_rate, resolution) ==
    with_signature(bpm, sample_rate, resolution, [beats_per_bar |-> 4, beat_unit |-> 4])

\* the while loop of advance_by; pos is sample_position * den
RECURSIVE TickLoop(_, _)
TickLoop(clock, pos) ==
    IF pos >= clock.samples_per_tick.num
    THEN TickLoop([clock EXCEPT !.tick_counter = @ + 1], pos - clock.samples_per_tick.num)
    ELSE [clock EXCEPT !.sample_position = pos]

\* TempoClock::advance_by (the clock after the call)
advance_by(clock, samples) ==
    IF ~clock.running
    THEN clock
    ELSE TickLoop(clock, clock.sample_position + samples * clock.samples_per_tick.den)

\* TempoClock::start
ClockStart(clock) == [clock EXCEPT !.running = TRUE]

\* a reset that forgets the tick counter
ClockReset_KeepsTicks(clock) == [clock EXCEPT !.sample_position = 0]

\* TempoClock::reset
ClockReset(clock) == [clock EXCEPT !.sample_position = 0, !.tick_counter = 0]

\* TempoClock::current_tick / Scheduler::current_tick
current_tick == tempo_clock.tick_counter

(***************************************************************************)
(* TempoClock in binary64  (transport/src/clock.rs)                        *)
(*                                                                         *)
(* The scheduler's clock above is exact because its samples_per_tick (2.5  *)
(* and 5 frames) and every position are multiples of 1/2.  A clock with    *)
(* any tempo is modelled here with the f64 values themselves: a value is   *)
(* <<hi, lo>>, standing for (hi * 2^28 + lo) * 2^-47, and every sum and    *)
(* difference is rounded to 53 significant bits, ties to even.             *)
(***************************************************************************)
F64Base == 2^28
\* n as f64, for a frame count n
F64FromFrames(n) == <<n * 2^19, 0>>

\* the spacing of the doubles around v, in units of 2^-47
F64Quantum(v) ==
    IF v[1] < 2^25 THEN 1
    ELSE IF v[1] < 2^26 THEN 2
    ELSE IF v[1] < 2^27 THEN 4
    ELSE IF v[1] < 2^28 THEN 8
    ELSE 16

\* round to nearest, ties to even
F64Round(v) ==
    LET q    == F64Quantum(v)
        r    == v[2] % q
        down == v[2] - r
        up   == 2 * r > q \/ (2 * r = q /\ (down \div q) % 2 = 1)
        lo   == IF up THEN down + q ELSE down
    IN  IF lo = F64Base THEN <<v[1] + 1, 0>> ELSE <<v[1], lo>>

\* a + b and a - b (a >= b) as f64 computes them
F64Add(a, b) ==
    LET lo == a[2] + b[2]
    IN  F64Round(IF lo >= F64Base THEN <<a[1] + b[1] + 1, lo - F64Base>>
                 ELSE <<a[1] + b[1], lo>>)
F64Sub(a, b) ==
    F64Round(IF a[2] >= b[2] THEN <<a[1] - b[1], a[2] - b[2]>>
             ELSE <<a[1] - b[1] - 1, a[2] + F64Base - b[2]>>)
F64Ge(a, b) == a[1] > b[1] \/ (a[1] = b[1] /\ a[2] >= b[2])

\* TempoClock::new (with_signature with 4/4)
TempoClockF64(choice) ==
    [bpm              |-> choice.bpm,
     samples_per_tick |-> choice.samples_per_tick,
     sample_position  |-> <<0, 0>>,
     tick_counter     |-> 0,
     running          |-> TRUE,
     time_signature   |-> [beats_per_bar |-> 4, beat_unit |-> 4],
     ticks_per_beat   |-> ticks_per_beat(choice.resolution),
     sample_rate      |-> choice.sample_rate]

RECURSIVE TickLoopF64(_)
\* the while loop of advance_by
TickLoopF64(c) ==
    IF F64Ge(c.sample_position, c.samples_per_tick)
    THEN TickLoopF64([c EXCEPT !.sample_position = F64Sub(@, c.samples_per_tick),
                               !.tick_counter = @ + 1])
    ELSE c

\* an advance_by that reports a tick at every call
AdvanceReturns_Always(c, samples) == TRUE

\* the value advance_by returns: tick_emitted
AdvanceReturns(c, samples) ==
    /\ c.running
    /\ F64Ge(F64Add(c.sample_position, F64FromFrames(samples)), c.samples_per_tick)

\* TempoClock::advance_by (the clock after the call)
advance_by_f64(c, samples) ==
    IF ~c.running THEN c
    ELSE TickLoopF64([c EXCEPT !.sample_position = F64Add(@, F64FromFrames(samples))])

\* a bar_beat_tick that counts beats from 0
bar_beat_tick_ZeroBasedBeat(c) ==
    LET ticks_per_bar  == c.ticks_per_beat * c.time_signature.beats_per_bar
        ticks_into_bar == c.tick_counter % ticks_per_bar
    IN  << (c.tick_counter \div ticks_per_bar) + 1,
           ticks_into_bar \div c.ticks_per_beat,
           (ticks_into_bar % c.ticks_per_beat) + 1 >>

\* TempoClock::bar_beat_tick
bar_beat_tick(c) ==
    LET ticks_per_bar  == c.ticks_per_beat * c.time_signature.beats_per_bar
        ticks_into_bar == c.tick_counter % ticks_per_bar
    IN  << (c.tick_counter \div ticks_per_bar) + 1,
           (ticks_into_bar \div c.ticks_per_beat) + 1,
           (ticks_into_bar % c.ticks_per_beat) + 1 >>

(***************************************************************************)
(* Quantizer  (transport/src/quantizer.rs, transport/src/resolution.rs)    *)
(***************************************************************************)
\* QuantizeResolution::ticks_per_grid_unit
ticks_per_grid_unit(resolution, tpb) ==
    CASE resolution = "Quarter"      -> tpb
      [] resolution = "Eighth"       -> tpb \div 2
      [] resolution = "Sixteenth"    -> tpb \div 4
      [] resolution = "ThirtySecond" -> tpb \div 8

\* Quantizer::quantize_tick_forward: the division panics when grid_size is 0
\* (and tick + grid_size - 1 underflows first when tick is 0 as well)
quantize_tick_forward(tick, resolution, tpb) ==
    LET grid_size == ticks_per_grid_unit(resolution, tpb)
    IN  IF grid_size = 0
        THEN [status |-> "panic", value |-> 0]
        ELSE [status |-> "ok", value |-> ((tick + grid_size - 1) \div grid_size) * grid_size]

(***************************************************************************)
(* Tracks  (audio_engine/src/track)                                        *)
(***************************************************************************)
\* Track::id.  ConstantTrack::id returns a fresh Uuid at every call, so it
\* equals no target id; 0 stands for that value.
TrackId(track) == IF track.kind = "Constant" THEN 0 ELSE track.tid

Min(a, b) == IF a <= b THEN a ELSE b

\* ConstantTrack::fill_next_samples: every slot is overwritten
ConstantFill(track, next_samples) ==
    [track   |-> track,
     samples |-> [i \in 1..Len(next_samples) |-> track.samples[1]]]

\* WavTrack::fill_next_samples: copies samples[position..end) to the front of
\* the slice and leaves the rest of the slice as it was
WavFill(track, next_samples) ==
    LET end == Min(track.position + Len(next_samples), Len(track.samples))
    IN  [track   |-> [track EXCEPT !.position = end],
         samples |-> [i \in 1..Len(next_samples) |->
                        IF i <= end - track.position
                        THEN track.samples[track.position + i]
                        ELSE next_samples[i]]]

\* f32::clamp(-1.0, 1.0)
Clamp(pan) == IF pan < -1 THEN -1 ELSE IF pan > 1 THEN 1 ELSE pan

\* the scaling loop of GainPanTrack::fill_next_samples:
\* l * gain * pan_l with pan_l = (1 - pan) * 0.5, r * gain * pan_r with
\* pan_r = (1 + pan) * 0.5 (the products used are even, so the halves are exact)
GainPanScale(frame, gain, pan) ==
    << (frame[1] * gain * (1 - Clamp(pan))) \div 2,
       (frame[2] * gain * (1 + Clamp(pan))) \div 2 >>

RECURSIVE fill_next_samples(_, _)
\* Track::fill_next_samples (dynamic dispatch); GainPanTrack lets its inner
\* track fill the slice and then scales every frame of the slice
fill_next_samples(track, next_samples) ==
    CASE track.kind = "Constant" -> ConstantFill(track, next_samples)
      [] track.kind = "Wav"      -> WavFill(track, next_samples)
      [] track.kind = "GainPan"  ->
            LET r == fill_next_samples(track.inner, next_samples)
            IN  [track   |-> [track EXCEPT !.inner = r.track],
                 samples |-> [i \in 1..Len(next_samples) |->
                                GainPanScale(r.samples[i], track.gain, track.pan)]]

\* a parameter change that every GainPan track takes, whatever its id
apply_param_change_AnyId(track, id, change) ==
    IF track.kind # "GainPan" THEN track
    ELSE IF change.kind = "SetGain"
         THEN [track EXCEPT !.gain = change.val]
         ELSE [track EXCEPT !.pan = change.val]

RECURSIVE apply_param_change(_, _, _)
\* Track::apply_param_change: a no-op by default; GainPanTrack delegates to its
\* inner track when the id is not its own
apply_param_change(track, id, change) ==
    IF track.kind # "GainPan" THEN track
    ELSE IF track.tid # id
         THEN [track EXCEPT !.inner = apply_param_change(track.inner, id, change)]
         ELSE IF change.kind = "SetGain"
              THEN [track EXCEPT !.gain = change.val]
              ELSE [track EXCEPT !.pan = change.val]

\* a reset that a GainPanTrack keeps to itself
reset_NotForwarded(track) ==
    IF track.kind = "Wav" THEN [track EXCEPT !.position = 0] ELSE track

RECURSIVE reset(_)
\* Track::reset: a no-op by default; WavTrack rewinds to position 0 and
\* GainPanTrack resets its inner track
reset(track) ==
    CASE track.kind = "Wav"     -> [track EXCEPT !.position = 0]
      [] track.kind = "GainPan" -> [track EXCEPT !.inner = reset(track.inner)]
      [] OTHER                  -> track

Silence(n) == [i \in 1..n |-> <<0, 0>>]


(***************************************************************************)
(* SchedulerCommand  (values moved through the ring buffer)                *)
(***************************************************************************)
NoTrack == [tid |-> 0, kind |-> "None", samples |-> <<>>, position |-> 0]
NoBBT == BBT(0, 0, 0)
NoResolution == [kind |-> "None", val |-> 0]

NoChange == [kind |-> "None", val |-> 0]

Command(type, track, start_frame, target_id, bpm, resolution, enabled, start, end, change) ==
    [type |-> type, track |-> track, start_frame |-> start_frame, target_id |-> target_id,
     bpm |-> bpm, resolution |-> resolution, enabled |-> enabled, start |-> start, end |-> end,
     change |-> change]

ScheduleTrackCmd(track, start_frame) ==
    Command("ScheduleTrack", track, start_frame, 0, 0, NoResolution, FALSE, NoBBT, NoBBT, NoChange)
StopTrackCmd(target_id) ==
    Command("StopTrack", NoTrack, 0, target_id, 0, NoResolution, FALSE, NoBBT, NoBBT, NoChange)
SetTempoCmd(bpm, resolution) ==
    Command("SetTempo", NoTrack, 0, 0, bpm, resolution, FALSE, NoBBT, NoBBT, NoChange)
SetLoopCmd(enabled, start, end) ==
    Command("SetLoop", NoTrack, 0, 0, 0, NoResolution, enabled, start, end, NoChange)
ParamChangeCmd(target_id, change) ==
    Command("ParamChange", NoTrack, 0, target_id, 0, NoResolution, FALSE, NoBBT, NoBBT, change)
RestartTrackCmd(target_id) ==
    Command("RestartTrack", NoTrack, 0, target_id, 0, NoResolution, FALSE, NoBBT, NoBBT, NoChange)
PlayCmd == Command("Play", NoTrack, 0, 0, 0, NoResolution, FALSE, NoBBT, NoBBT, NoChange)
PauseCmd == Command("Pause", NoTrack, 0, 0, 0, NoResolution, FALSE, NoBBT, NoBBT, NoChange)
StopCmd == Command("Stop", NoTrack, 0, 0, 0, NoResolution, FALSE, NoBBT, NoBBT, NoChange)

\* the commands the control thread can build in the current state: a track is
\* moved into its ScheduleTrack command, so only tracks it still owns
TransportCommands == {PlayCmd, PauseCmd, StopCmd}
ConfigCommands ==
    { SetTempoCmd(c.bpm, c.resolution) : c \in TempoChoices }
    \cup { SetLoopCmd(TRUE, s, e) : s \in LoopStartChoices, e \in LoopEndChoices }
    \cup { SetLoopCmd(FALSE, BBT(1, 1, 1), BBT(1, 1, 2)) }
    \cup { ScheduleTrackCmd(t, f) : t \in owned, f \in StartFrames }
    \cup { StopTrackCmd(id) : id \in TrackIds }
\* the commands of the control thread of a playing session
MixCommands ==
    { StopTrackCmd(t.tid) : t \in { p \in MixPool : p.kind = "Wav" } }
    \cup { ParamChangeCmd(id, c) : id \in ParamTargets, c \in ParamChanges }
    \cup { PauseCmd }

\* the commands of the control thread of a playing session that restarts tracks
RestartCommands == { RestartTrackCmd(id) : id \in RestartTargets } \cup { PauseCmd }

\* a control thread that never stops sending is modelled with transport
\* commands only; its pushes_left is a value no counting thread ever holds
Endless == MaxPushes + 1
ProducerCommands ==
    IF pushes_left = Endless THEN TransportCommands
    ELSE IF pushes_left > 0 THEN TransportCommands \cup ConfigCommands
    ELSE {}

(***************************************************************************)
(* Ring buffer (rtrb): bounded FIFO, one producer, one consumer            *)
(***************************************************************************)
\* a ring buffer that takes one command more than its capacity
QueueIsFull_OffByOne(queue) == Len(queue) > Capacity

\* Producer::push fails with PushError::Full when no slot is free
QueueIsFull(queue) == Len(queue) >= Capacity
\* Producer::push on a queue with a free slot
QueuePush(queue, cmd) == Append(queue, cmd)
\* Consumer::pop: Err on an empty queue, else the oldest element
QueueIsEmpty(queue) == queue = <<>>
QueueFront(queue) == Head(queue)
\* a pop that hands out the oldest command and leaves it queued
QueuePop_KeepsFront(queue) == queue
QueuePop(queue) == Tail(queue)

(***************************************************************************)
(* Scheduler  (audio_engine/src/scheduler/mod.rs)                          *)
(***************************************************************************)
TidsOf(seq) == { seq[i].tid : i \in 1..Len(seq) }
PendingTids == { e.track.tid : e \in scheduled }
ActiveTids == TidsOf(active_tracks)

\* Scheduler::bbt_to_tick_count
bbt_to_tick_count_BarIsBeat(clock, points, start) ==
    LET bar  == IF start THEN points.start_bar  ELSE points.end_bar
        beat == IF start THEN points.start_beat ELSE points.end_beat
        tick == IF start THEN points.start_tick ELSE points.end_tick
    IN  ((bar - 1) * clock.ticks_per_beat)
        + ((beat - 1) * clock.ticks_per_beat)
        + (tick - 1)

bbt_to_tick_count(clock, points, start) ==
    LET bar  == IF start THEN points.start_bar  ELSE points.end_bar
        beat == IF start THEN points.start_beat ELSE points.end_beat
        tick == IF start THEN points.start_tick ELSE points.end_tick
    IN  ((bar - 1) * clock.time_signature.beats_per_bar * clock.ticks_per_beat)
        + ((beat - 1) * clock.ticks_per_beat)
        + (tick - 1)

\* a conversion that truncates instead of rounding
TicksToFrame_Truncates(ticks, spt) == (ticks * spt.num) \div spt.den

\* (ticks as f64 * samples_per_tick).round() as u64; f64::round rounds half
\* away from zero
TicksToFrame(ticks, spt) == (2 * ticks * spt.num + spt.den) \div (2 * spt.den)

\* u64::MAX, the value the cast `as u64` saturates to; it is beyond the
\* integers of TLC and is written as the largest of them, above every frame
\* the fills reach
U64Max == 2147483647

\* (ticks as f64 * samples_per_tick).round() as u64.  A negative ticks is the
\* u64 2^64 + ticks that bbt_to_tick_count wraps around to when a bar, beat or
\* tick of 0 is decremented; on the clocks here (more than one frame per tick)
\* its product is above u64::MAX and the cast saturates.
LoopFrame(ticks, spt) == IF ticks < 0 THEN U64Max ELSE TicksToFrame(ticks, spt)

\* a SetLoop{enabled: true} whose conversion decrements a field that is 0
Underflows(cmd) ==
    /\ cmd.type = "SetLoop"
    /\ cmd.enabled
    /\ \E p \in {cmd.start, cmd.end} : p.bar = 0 \/ p.beat = 0 \/ p.tick = 0

\* Scheduler::schedule
\* a schedule that also starts the track at once
schedule_AlsoActive(track, start_frame) ==
    /\ scheduled' = scheduled \cup { [track |-> track, start_frame |-> start_frame] }
    /\ active_tracks' = Append(active_tracks, track)
    /\ start_of' = [start_of EXCEPT ![track.tid] = start_frame]
    /\ UNCHANGED <<current_frame, tempo_clock, looping_enabled, loop_points,
                   loop_start_frame, loop_end_frame, transport_state, cancelled, rewound>>

schedule(track, start_frame) ==
    /\ scheduled' = scheduled \cup { [track |-> track, start_frame |-> start_frame] }
    /\ start_of' = [start_of EXCEPT ![track.tid] = start_frame]
    /\ UNCHANGED <<active_tracks, current_frame, tempo_clock, looping_enabled, loop_points,
                   loop_start_frame, loop_end_frame, transport_state, cancelled, rewound>>

\* a stop_track that also drops the pending tracks of that id
stop_track_AlsoPending(target_id) ==
    /\ active_tracks' = SelectSeq(active_tracks, LAMBDA t : TrackId(t) # target_id)
    /\ scheduled' = { e \in scheduled : TrackId(e.track) # target_id }
    /\ rewound' = rewound \cap TidsOf(active_tracks')
    /\ UNCHANGED <<current_frame, tempo_clock, looping_enabled, loop_points,
                   loop_start_frame, loop_end_frame, transport_state, start_of, cancelled>>

\* Scheduler::stop_track: retain the tracks whose id differs
stop_track(target_id) ==
    /\ active_tracks' = SelectSeq(active_tracks, LAMBDA t : TrackId(t) # target_id)
    /\ rewound' = rewound \cap TidsOf(active_tracks')
    /\ UNCHANGED <<scheduled, current_frame, tempo_clock, looping_enabled, loop_points,
                   loop_start_frame, loop_end_frame, transport_state, start_of, cancelled>>

\* a SetTempo that raises the tempo by bpm instead of setting it
ProcessSetTempo_AddsBpm(cmd) ==
    /\ tempo_clock' = TempoClockNew(tempo_clock.bpm + cmd.bpm, InitialTempo.sample_rate,
                                    cmd.resolution)
    /\ UNCHANGED <<scheduled, active_tracks, current_frame, looping_enabled, loop_points,
                   loop_start_frame, loop_end_frame, transport_state, start_of, cancelled,
                   rewound>>

\* a SetTempo that changes the grid and keeps the ticks counted so far
ProcessSetTempo_KeepsTicks(cmd) ==
    /\ tempo_clock' = [TempoClockNew(cmd.bpm, InitialTempo.sample_rate, cmd.resolution)
                          EXCEPT !.tick_counter = tempo_clock.tick_counter]
    /\ UNCHANGED <<scheduled, active_tracks, current_frame, looping_enabled, loop_points,
                   loop_start_frame, loop_end_frame, transport_state, start_of, cancelled,
                   rewound>>

ProcessSetTempo_Reconverts(cmd) ==
    LET clock == TempoClockNew(cmd.bpm, InitialTempo.sample_rate, cmd.resolution)
    IN  /\ tempo_clock' = clock
        /\ IF looping_enabled
           THEN /\ loop_start_frame' = TicksToFrame(bbt_to_tick_count(clock, loop_points, TRUE),
                                                    clock.samples_per_tick)
                /\ loop_end_frame' = TicksToFrame(bbt_to_tick_count(clock, loop_points, FALSE),
                                                  clock.samples_per_tick)
           ELSE UNCHANGED <<loop_start_frame, loop_end_frame>>
        /\ UNCHANGED <<scheduled, active_tracks, current_frame, looping_enabled, loop_points,
                       transport_state, start_of, cancelled, rewound>>

ProcessSetTempo(cmd) ==
    /\ tempo_clock' = TempoClockNew(cmd.bpm, InitialTempo.sample_rate, cmd.resolution)
    /\ UNCHANGED <<scheduled, active_tracks, current_frame, looping_enabled, loop_points,
                   loop_start_frame, loop_end_frame, transport_state, start_of, cancelled,
                   rewound>>

\* process_command, ParamChange: forwarded to every active track
\* a ParamChange that reaches the pending tracks as well
ProcessParamChange_AlsoPending(cmd) ==
    /\ active_tracks' = [i \in 1..Len(active_tracks) |->
                            apply_param_change(active_tracks[i], cmd.target_id, cmd.change)]
    /\ scheduled' = { [e EXCEPT !.track = apply_param_change(e.track, cmd.target_id, cmd.change)] :
                        e \in scheduled }
    /\ UNCHANGED <<current_frame, tempo_clock, looping_enabled, loop_points,
                   loop_start_frame, loop_end_frame, transport_state, start_of, cancelled,
                   rewound>>

ProcessParamChange(cmd) ==
    /\ active_tracks' = [i \in 1..Len(active_tracks) |->
                            apply_param_change(active_tracks[i], cmd.target_id, cmd.change)]
    /\ UNCHANGED <<scheduled, current_frame, tempo_clock, looping_enabled, loop_points,
                   loop_start_frame, loop_end_frame, transport_state, start_of, cancelled,
                   rewound>>

\* process_command, RestartTrack: reset the first active track of that id
ProcessRestartTrack(cmd) ==
    /\ IF \E i \in 1..Len(active_tracks) : TrackId(active_tracks[i]) = cmd.target_id
       THEN LET first == CHOOSE i \in 1..Len(active_tracks) :
                            /\ TrackId(active_tracks[i]) = cmd.target_id
                            /\ \A j \in 1..(i - 1) : TrackId(active_tracks[j]) # cmd.target_id
            IN  active_tracks' = [active_tracks EXCEPT ![first] = reset(active_tracks[first])]
       ELSE active_tracks' = active_tracks
    /\ UNCHANGED <<scheduled, current_frame, tempo_clock, looping_enabled, loop_points,
                   loop_start_frame, loop_end_frame, transport_state, start_of, cancelled,
                   rewound>>

ProcessSetLoop(cmd) ==
    /\ looping_enabled' = cmd.enabled
    /\ IF cmd.enabled
       THEN LET points == [start_bar |-> cmd.start.bar, start_beat |-> cmd.start.beat,
                           start_tick |-> cmd.start.tick, end_bar |-> cmd.end.bar,
                           end_beat |-> cmd.end.beat, end_tick |-> cmd.end.tick]
                start_ticks == bbt_to_tick_count(tempo_clock, points, TRUE)
                end_ticks == bbt_to_tick_count(tempo_clock, points, FALSE)
            IN  /\ loop_points' = points
                /\ loop_start_frame' = LoopFrame(start_ticks, tempo_clock.samples_per_tick)
                /\ loop_end_frame' = LoopFrame(end_ticks, tempo_clock.samples_per_tick)
       ELSE /\ loop_points' = "None"
            /\ UNCHANGED <<loop_start_frame, loop_end_frame>>
    /\ UNCHANGED <<scheduled, active_tracks, current_frame, tempo_clock, transport_state,
                   start_of, cancelled, rewound>>

\* a Play that starts again from the origin
ProcessPlay_FromStart ==
    /\ transport_state' = "Playing"
    /\ tempo_clock' = ClockStart(ClockReset(tempo_clock))
    /\ current_frame' = 0
    /\ UNCHANGED <<scheduled, active_tracks, looping_enabled, loop_points,
                   loop_start_frame, loop_end_frame, start_of, cancelled, rewound>>

ProcessPlay ==
    /\ transport_state' = "Playing"
    /\ tempo_clock' = ClockStart(tempo_clock)
    /\ UNCHANGED <<scheduled, active_tracks, current_frame, looping_enabled, loop_points,
                   loop_start_frame, loop_end_frame, start_of, cancelled, rewound>>

ProcessPause ==
    /\ transport_state' = "Paused"
    /\ UNCHANGED <<scheduled, active_tracks, current_frame, tempo_clock, looping_enabled,
                   loop_points, loop_start_frame, loop_end_frame, start_of, cancelled,
                   rewound>>

\* the pending heap after Stop: the code leaves self.scheduled alone
StopPending(pending) == pending

ProcessStop ==
    /\ transport_state' = "Stopped"
    /\ current_frame' = 0
    /\ tempo_clock' = ClockReset(tempo_clock)
    /\ active_tracks' = <<>>
    /\ scheduled' = StopPending(scheduled)
    /\ cancelled' = cancelled \cup PendingTids \cup ActiveTids
    /\ rewound' = {}
    /\ UNCHANGED <<looping_enabled, loop_points, loop_start_frame, loop_end_frame, start_of>>

\* Scheduler::process_command
process_command(cmd) ==
    \/ cmd.type = "ScheduleTrack" /\ schedule(cmd.track, cmd.start_frame)
    \/ cmd.type = "ParamChange" /\ ProcessParamChange(cmd)
    \/ cmd.type = "StopTrack" /\ stop_track(cmd.target_id)
    \/ cmd.type = "RestartTrack" /\ ProcessRestartTrack(cmd)
    \/ cmd.type = "SetTempo" /\ ProcessSetTempo(cmd)
    \/ cmd.type = "SetLoop" /\ ProcessSetLoop(cmd)
    \/ cmd.type = "Play" /\ ProcessPlay
    \/ cmd.type = "Pause" /\ ProcessPause
    \/ cmd.type = "Stop" /\ ProcessStop


\* a promotion test that takes a track only on its very start frame
IsDue_OnlyAtStart(entry, frame) == entry.start_frame = frame

\* a promotion test that is strict
IsDue_Strict(entry, frame) == entry.start_frame < frame

\* the promotion test of next_samples: top.start_frame <= self.current_frame
IsDue(entry, frame) == entry.start_frame <= frame

\* the pending entries the promotion loop pops at current_frame
DueEntries(pending, frame) == { e \in pending : IsDue(e, frame) }

\* the orders in which the heap can pop the due entries: earliest start_frame
\* first; the order of entries with equal start_frame is the heap's own
PopOrders(due) ==
    { s \in [1..Cardinality(due) -> due] :
        /\ \A i, j \in 1..Cardinality(due) : i # j => s[i] # s[j]
        /\ \A i, j \in 1..Cardinality(due) : i < j => s[i].start_frame <= s[j].start_frame }

AddFrame(a, b) == <<a[1] + b[1], a[2] + b[2]>>

\* the mix loop of next_samples: one tmp_buffer is handed to every active
\* track in turn and added to buffer after each track
RECURSIVE MixLoop(_, _, _, _)
MixLoop(tracks, k, tmp_buffer, mix) ==
    IF k > Len(tracks)
    THEN [tracks |-> tracks, buffer |-> mix]
    ELSE LET r == fill_next_samples(tracks[k], tmp_buffer)
         IN  MixLoop([tracks EXCEPT ![k] = r.track], k + 1, r.samples,
                     [i \in 1..Len(mix) |-> AddFrame(mix[i], r.samples[i])])

\* a wrap that rewinds the active tracks to their start
WrapTracks_Rewinds(tracks) == [i \in 1..Len(tracks) |-> reset(tracks[i])]

\* what the loop wrap of next_samples does to the active tracks: nothing
WrapTracks(tracks) == tracks

\* a wrap test that lets the frame sit on loop_end_frame
ShouldWrap_Strict(frame) == looping_enabled /\ frame > loop_end_frame

\* the loop-wrap test of next_samples
ShouldWrap(frame) == looping_enabled /\ frame >= loop_end_frame

\* an advance by one frame per fill
AdvanceFrame_ByOne(frame, n) == frame + 1

\* current_frame after the advance of a Playing fill
AdvanceFrame(frame, n) == frame + n

\* a transport test that lets a Paused transport render
IsPlaying_NotStopped(state) == state # "Stopped"

\* the transport test of next_samples: which fills render
IsPlaying(state) == state = "Playing"

\* a drain loop that gives up at once
DrainDone_AtOnce == TRUE

\* the exit test of the drain loop: pop returned Err
DrainDone == QueueIsEmpty(automation_events)

(***************************************************************************)
(* Actions                                                                 *)
(***************************************************************************)
\* control thread: producer.push(cmd)
Push(cmd) ==
    /\ IF QueueIsFull(automation_events)
       THEN /\ push_result' = "Full"
            /\ UNCHANGED <<automation_events, owned, accepted, pushes_left>>
       ELSE /\ push_result' = "Ok"
            /\ automation_events' = QueuePush(automation_events, cmd)
            /\ owned' = owned \ {cmd.track}
            /\ accepted' = Append(accepted, cmd)
            /\ pushes_left' = IF pushes_left = Endless THEN Endless ELSE pushes_left - 1
    /\ UNCHANGED lib_vars
    /\ UNCHANGED <<sched_vars, fill_vars, fifo_ok, fill_observers, start_of, cancelled,
                   rewound>>

Produce == \E cmd \in ProducerCommands : Push(cmd)

\* realtime thread: next_samples is entered, buffer allocated
FillBegin(n) ==
    /\ pc = "idle"
    /\ current_frame + n <= MaxFrame
    /\ pc' = "drain"
    /\ frame_size' = n
    /\ buffer' = Silence(n)
    /\ entry_len' = Len(automation_events)
    /\ entry_transport' = transport_state
    /\ fill_frame' = current_frame
    /\ UNCHANGED lib_vars
    /\ UNCHANGED <<sched_vars, automation_events, producer_vars, accepted, fifo_ok,
                   drained, promoted, rendered, tempo_run, start_of, cancelled, rewound>>

EnterFill == \E n \in FrameSizes : FillBegin(n)

\* one iteration of the drain loop: pop a command and process it
DrainStep ==
    /\ pc = "drain"
    /\ ~DrainDone
    /\ LET cmd == QueueFront(automation_events)
       IN  /\ automation_events' = QueuePop(automation_events)
           /\ process_command(cmd)
           /\ fifo_ok' = (fifo_ok /\ accepted # <<>> /\ cmd = Head(accepted))
           /\ accepted' = IF accepted = <<>> THEN accepted ELSE Tail(accepted)
           /\ drained' = Min(drained + 1, Capacity + 1)
           /\ tempo_run' = IF cmd.type # "SetTempo" THEN <<>>
                           ELSE IF tempo_run # <<>> /\ tempo_run[1] = cmd
                                THEN <<cmd, cmd>>
                                ELSE <<cmd>>
    /\ UNCHANGED lib_vars
    /\ UNCHANGED <<producer_vars, fill_vars, entry_len, entry_transport, fill_frame,
                   promoted, rendered>>

\* the drain step of a build with overflow checks (the dev and test profiles)
\* on a SetLoop that underflows: looping_enabled is assigned, `x - 1` panics
\* inside bbt_to_tick_count and next_samples unwinds out of the fill
DrainPanic ==
    /\ pc = "drain"
    /\ ~DrainDone
    /\ Underflows(QueueFront(automation_events))
    /\ LET cmd == QueueFront(automation_events)
       IN  /\ automation_events' = QueuePop(automation_events)
           /\ looping_enabled' = cmd.enabled
           /\ fifo_ok' = (fifo_ok /\ accepted # <<>> /\ cmd = Head(accepted))
           /\ accepted' = IF accepted = <<>> THEN accepted ELSE Tail(accepted)
           /\ drained' = Min(drained + 1, Capacity + 1)
           /\ tempo_run' = <<>>
    /\ pc' = "panic"
    /\ UNCHANGED lib_vars
    /\ UNCHANGED <<scheduled, active_tracks, current_frame, tempo_clock, loop_points,
                   loop_start_frame, loop_end_frame, transport_state, producer_vars,
                   frame_size, buffer, entry_len, entry_transport, fill_frame, promoted,
                   rendered, start_of, cancelled, rewound>>

\* the drain loop ends and the transport is not Playing: return the silent buffer
FillSilent ==
    /\ pc = "drain"
    /\ DrainDone
    /\ ~IsPlaying(transport_state)
    /\ pc' = "return"
    /\ UNCHANGED lib_vars
    /\ UNCHANGED <<sched_vars, automation_events, producer_vars, frame_size, buffer,
                   observer_vars>>

\* the drain loop ends and the transport is Playing: promote, mix, advance, wrap
FillRender ==
    /\ pc = "drain"
    /\ DrainDone
    /\ IsPlaying(transport_state)
    /\ \E order \in PopOrders(DueEntries(scheduled, current_frame)) :
         LET due     == DueEntries(scheduled, current_frame)
             active  == active_tracks \o [i \in 1..Len(order) |-> order[i].track]
             mixed   == MixLoop(active, 1, Silence(frame_size), buffer)
             clock   == advance_by(tempo_clock, frame_size)
             frame   == AdvanceFrame(current_frame, frame_size)
         IN  /\ scheduled' = scheduled \ due
             /\ active_tracks' = IF ShouldWrap(frame) THEN WrapTracks(mixed.tracks)
                                 ELSE mixed.tracks
             /\ buffer' = mixed.buffer
             /\ IF ShouldWrap(frame)
                THEN /\ current_frame' = loop_start_frame
                     /\ tempo_clock' = advance_by(ClockReset(clock), loop_start_frame)
                     /\ rewound' = TidsOf(active)
                ELSE /\ current_frame' = frame
                     /\ tempo_clock' = clock
                     /\ rewound' = rewound
             /\ fill_frame' = current_frame
             /\ promoted' = { e.track.tid : e \in due }
             /\ rendered' = [i \in 1..Len(active) |-> active[i].tid]
    /\ pc' = "return"
    /\ UNCHANGED lib_vars
    /\ UNCHANGED <<looping_enabled, loop_points, loop_start_frame, loop_end_frame,
                   transport_state, automation_events, producer_vars, frame_size,
                   accepted, fifo_ok, entry_len, entry_transport, drained, tempo_run,
                   start_of, cancelled>>

\* next_samples has returned: the caller writes the buffer to the device and
\* the callback ends
FillReturn ==
    /\ pc = "return"
    /\ pc' = "idle"
    /\ frame_size' = 0
    /\ buffer' = <<>>
    /\ entry_len' = 0
    /\ entry_transport' = "Stopped"
    /\ drained' = 0
    /\ fill_frame' = 0
    /\ promoted' = {}
    /\ rendered' = <<>>
    /\ tempo_run' = <<>>
    /\ UNCHANGED lib_vars
    /\ UNCHANGED <<sched_vars, automation_events, producer_vars, accepted, fifo_ok,
                   start_of, cancelled, rewound>>

(***************************************************************************)
(* Clip and TimelineTrack  (audio_engine/src/clip, track/timeline.rs)      *)
(***************************************************************************)
\* the frames of the one audio source the clips share (Arc<dyn ClipSource>)
SourceFrames == << <<12, 12>>, <<24, 24>>, <<36, 36>> >>

\* ClipSource::read_samples(start_frame, 1).get(0): the frame, or silence
\* when start_frame is out of bounds
ReadFrame(start_frame) ==
    IF start_frame < Len(SourceFrames) THEN SourceFrames[start_frame + 1] ELSE <<0, 0>>

\* Fade { length_frames, curve } and Fade::none()
Fade(length_frames, curve) == [length_frames |-> length_frames, curve |-> curve]
FadeNone == Fade(0, "Linear")

\* Clip::new_audio with the id it drew
new_audio(id, start_frame, duration_frames, start_offset, looping, gain, pan) ==
    [id |-> id,
     timing |-> [start_frame |-> start_frame, duration_frames |-> duration_frames],
     start_offset |-> start_offset, looping |-> looping, gain |-> gain, pan |-> pan,
     fade_in |-> FadeNone, fade_out |-> FadeNone]

\* a clip end that lies one frame late
ends_at_OneMore(clip) == clip.timing.start_frame + clip.timing.duration_frames + 1

\* Clip::is_active_at / Clip::ends_at
ends_at(clip) == clip.timing.start_frame + clip.timing.duration_frames
is_active_at(clip, frame) ==
    frame >= clip.timing.start_frame /\ frame < ends_at(clip)

\* the triples <<fade_in, duration, total>> with fade_in <= 49 and duration <= 6
\* for which fade_in as f64 * (duration as f64 / total as f64) is an integer
\* in exact arithmetic and one unit in the last place below it in IEEE 754
\* binary64, so that floor() returns one less
F64ProductBelow ==
    { <<49, 1, 49>>, <<49, 2, 49>>, <<49, 2, 98>>, <<47, 3, 47>>, <<49, 4, 49>>,
      <<49, 4, 98>>, <<47, 6, 47>>, <<47, 6, 94>> }

\* (fade_in as f64 * (len as f64 / total as f64)).floor() as u64
ScaledFadeIn(fade_in, len, total) ==
    IF <<fade_in, len, total>> \in F64ProductBelow
    THEN (fade_in * len) \div total - 1
    ELSE (fade_in * len) \div total

\* Clip::clamp_fades
clamp_fades(clip) ==
    LET len   == clip.timing.duration_frames
        total == clip.fade_in.length_frames + clip.fade_out.length_frames
    IN  IF total > len
        THEN LET fi == ScaledFadeIn(clip.fade_in.length_frames, len, total)
             IN  [clip EXCEPT !.fade_in.length_frames = fi,
                              !.fade_out.length_frames = len - fi]
        ELSE clip

\* Clip::trim / move_to / slip / set_fade_in / set_fade_out
trim(clip, new_duration) ==
    clamp_fades([clip EXCEPT !.timing.duration_frames = new_duration])
move_to(clip, new_start_frame) == [clip EXCEPT !.timing.start_frame = new_start_frame]
slip(clip, delta) ==
    [clip EXCEPT !.start_offset = IF clip.start_offset + delta < 0 THEN 0
                                  ELSE clip.start_offset + delta]
set_fade_in(clip, length_frames, curve) ==
    clamp_fades([clip EXCEPT !.fade_in = Fade(length_frames, curve)])
set_fade_out(clip, length_frames, curve) ==
    clamp_fades([clip EXCEPT !.fade_out = Fade(length_frames, curve)])

\* u64::saturating_sub
SaturatingSub(a, b) == IF a >= b THEN a - b ELSE 0

\* a compute_fade_gain that keeps the fade-in gain where both fades apply
compute_fade_gain_KeepsFadeIn(local_frame, clip_len, fade_in, fade_out) ==
    IF fade_in.length_frames > 0 /\ local_frame < fade_in.length_frames
    THEN [num |-> local_frame, den |-> fade_in.length_frames]
    ELSE IF fade_out.length_frames > 0
            /\ local_frame >= SaturatingSub(clip_len, fade_out.length_frames)
         THEN [num |-> SaturatingSub(clip_len - 1, local_frame),
               den |-> fade_out.length_frames]
         ELSE [num |-> 1, den |-> 1]

\* compute_fade_gain for the Linear curve, as the fraction num / den:
\* i / n inside the fade-in, from_end / n inside the fade-out, the smaller of
\* the two where both apply, 1 elsewhere.  It is called for an active frame
\* only, so clip_len >= 1 and clip_len - 1 does not underflow.
compute_fade_gain(local_frame, clip_len, fade_in, fade_out) ==
    LET g  == IF fade_in.length_frames > 0 /\ local_frame < fade_in.length_frames
              THEN [num |-> local_frame, den |-> fade_in.length_frames]
              ELSE [num |-> 1, den |-> 1]
        out_start_frame == SaturatingSub(clip_len, fade_out.length_frames)
        go == [num |-> SaturatingSub(clip_len - 1, local_frame),
               den |-> fade_out.length_frames]
    IN  IF fade_out.length_frames > 0 /\ local_frame >= out_start_frame
        THEN IF go.num * g.den < g.num * go.den THEN go ELSE g
        ELSE g

\* apply_gain_pan
apply_gain_pan(l, r, gain, pan) ==
    LET g     == IF gain < 0 THEN 0 ELSE IF gain > 4 THEN 4 ELSE gain
        p     == Clamp(pan)
        pan_l == IF p < 0 THEN 1 ELSE 1 - p
        pan_r == IF p > 0 THEN 1 ELSE 1 + p
    IN  << l * g * pan_l, r * g * pan_r >>

\* a loop offset that is not reduced modulo the clip length
LocalFrame_NoWrap(clip, global_frame) == global_frame - clip.timing.start_frame

\* local_frame of render_audio: clip_relative % clip_length for a looping
\* clip (clip_length > 0), clip_relative otherwise
LocalFrame(clip, global_frame) ==
    LET clip_relative == global_frame - clip.timing.start_frame
    IN  IF clip.looping THEN clip_relative % clip.timing.duration_frames
        ELSE clip_relative

\* the second early continue of render_audio
PastEnd(clip, global_frame) == ~clip.looping /\ global_frame >= ends_at(clip)

\* the remainder of render_audio is taken with a divisor of zero: the thread
\* panics ("attempt to calculate the remainder with a divisor of zero")
RemainderPanics(clip, global_frame) ==
    /\ global_frame >= clip.timing.start_frame
    /\ clip.looping
    /\ clip.timing.duration_frames = 0

\* what one pass of the inner loop of render_audio adds to output_buffer[i]
\* for global_frame (there is no panic at this frame)
Contribution(clip, global_frame) ==
    IF global_frame < clip.timing.start_frame \/ PastEnd(clip, global_frame)
    THEN <<0, 0>>
    ELSE LET local_frame  == LocalFrame(clip, global_frame)
             source_frame == clip.start_offset + local_frame
             relative_time_frame == clip.timing.start_frame + local_frame
             s  == ReadFrame(source_frame)
             fg == compute_fade_gain(local_frame, clip.timing.duration_frames,
                                     clip.fade_in, clip.fade_out)
         IN  IF ~is_active_at(clip, relative_time_frame) THEN <<0, 0>>
             ELSE apply_gain_pan((s[1] * fg.num) \div fg.den, (s[2] * fg.num) \div fg.den,
                                 clip.gain, clip.pan)

RECURSIVE SumContributions(_, _, _)
SumContributions(cs, k, global_frame) ==
    IF k > Len(cs) THEN <<0, 0>>
    ELSE AddFrame(Contribution(cs[k], global_frame), SumContributions(cs, k + 1, global_frame))

\* TimelineTrack::render_audio: "panic" when some pass divides by zero, else
\* output_buffer with every clip's contributions added
RenderPanics(cs, start_frame, frame_count) ==
    \E k \in 1..Len(cs), i \in 0..(frame_count - 1) : RemainderPanics(cs[k], start_frame + i)
render_audio(cs, start_frame, frame_count, output_buffer) ==
    [i \in 1..frame_count |->
        AddFrame(output_buffer[i], SumContributions(cs, 1, start_frame + i - 1))]

RECURSIVE SortedInsert(_, _)
\* c placed behind the last clip whose start_frame is not greater
SortedInsert(sorted, c) ==
    IF sorted = <<>> THEN <<c>>
    ELSE IF sorted[Len(sorted)].timing.start_frame <= c.timing.start_frame
         THEN Append(sorted, c)
         ELSE Append(SortedInsert(SubSeq(sorted, 1, Len(sorted) - 1), c), sorted[Len(sorted)])

RECURSIVE SortByStart(_)
\* Vec::sort_by_key(|c| c.timing.start_frame): a stable sort
SortByStart(cs) ==
    IF cs = <<>> THEN <<>>
    ELSE SortedInsert(SortByStart(SubSeq(cs, 1, Len(cs) - 1)), cs[Len(cs)])

\* TimelineTrack::add_clip / remove_clip
add_clip(cs, clip) == SortByStart(Append(cs, clip))
remove_clip(cs, clip_id) == SelectSeq(cs, LAMBDA c : c.id # clip_id)

\* ---- operations on a TimelineTrack that is used on its own
session_vars == <<sched_vars, automation_events, producer_vars, fill_vars, observer_vars>>
clip_frame == <<session_vars, clock_vars, quant_vars>>

ClipOp(op, clip, arg) == [op |-> op, clip |-> clip, arg |-> arg]

\* an edit of clips[i] in place (timeline.clips.get_mut(i)); the caller's
\* buffer of the last render is dropped
EditClip(i, edited, op) ==
    /\ render_status # "panic"
    /\ clips' = [clips EXCEPT ![i] = edited]
    /\ clip_op' = op
    /\ out' = <<>>
    /\ out_start' = 0
    /\ render_status' = "none"
    /\ UNCHANGED <<clips_made, clip_frame>>

\* Clip::new_audio and TimelineTrack::add_clip
NewClip(start_frame, duration_frames, start_offset, looping) ==
    /\ render_status # "panic"
    /\ clips' = add_clip(clips, new_audio(clips_made + 1, start_frame, duration_frames,
                                          start_offset, looping, 1, 0))
    /\ clips_made' = clips_made + 1
    /\ clip_op' = ClipOp("add_clip", clips_made + 1, start_frame)
    /\ out' = <<>>
    /\ out_start' = 0
    /\ render_status' = "none"
    /\ UNCHANGED clip_frame

\* the one clip of a track whose clip is then edited
AddOnlyClip ==
    /\ clips_made = 0
    /\ \E s \in ClipStarts, d \in ClipDurations, o \in ClipOffsets, looping \in BOOLEAN :
         NewClip(s, d, o, looping)

\* the clips of a track that holds several one-frame clips
AddClip ==
    /\ clips_made < MaxClips
    /\ \E s \in ClipStarts : NewClip(s, 1, 0, FALSE)

RemoveClip ==
    /\ render_status # "panic"
    /\ \E id \in 1..clips_made :
         /\ clips' = remove_clip(clips, id)
         /\ clip_op' = ClipOp("remove_clip", id, 0)
    /\ out' = <<>>
    /\ out_start' = 0
    /\ render_status' = "none"
    /\ UNCHANGED <<clips_made, clip_frame>>

Trim ==
    \E i \in 1..Len(clips), d \in ClipDurations :
        EditClip(i, trim(clips[i], d), ClipOp("trim", clips[i].id, d))

MoveTo ==
    \E i \in 1..Len(clips), s \in ClipStarts :
        EditClip(i, move_to(clips[i], s), ClipOp("move_to", clips[i].id, s))

\* slipping further than the end of the source changes nothing that is heard
Slip ==
    \E i \in 1..Len(clips), delta \in SlipDeltas :
        /\ clips[i].start_offset + delta <= Len(SourceFrames)
        /\ EditClip(i, slip(clips[i], delta), ClipOp("slip", clips[i].id, delta))

SetFadeIn ==
    \E i \in 1..Len(clips), n \in FadeLengths :
        EditClip(i, set_fade_in(clips[i], n, "Linear"), ClipOp("set_fade_in", clips[i].id, n))

SetFadeOut ==
    \E i \in 1..Len(clips), n \in FadeLengths :
        EditClip(i, set_fade_out(clips[i], n, "Linear"), ClipOp("set_fade_out", clips[i].id, n))

\* render_audio(start_frame, frame_count, buffer) into a silent buffer, as
\* AudioTrack::fill_next_samples calls it; a panic ends the thread
Render ==
    /\ render_status # "panic"
    /\ \E s \in RenderStarts, n \in RenderCounts :
         /\ out_start' = s
         /\ clip_op' = ClipOp("render_audio", s, n)
         /\ IF RenderPanics(clips, s, n)
            THEN /\ render_status' = "panic"
                 /\ out' = <<>>
            ELSE /\ render_status' = "ok"
                 /\ out' = render_audio(clips, s, n, Silence(n))
    /\ UNCHANGED <<clips, clips_made, clip_frame>>

\* ---- operations on a TempoClock that is used on its own
clock_frame == <<session_vars, clip_vars, quant_vars>>

Advance ==
    \E n \in AdvanceChoices :
        /\ total_frames + n <= MaxClockFrames
        /\ clk' = advance_by_f64(clk, n)
        /\ tick_emitted' = AdvanceReturns(clk, n)
        /\ total_frames' = IF clk.running THEN total_frames + n ELSE total_frames
        /\ clock_op' = "advance_by"
        /\ UNCHANGED clock_frame

\* TempoClock::stop / start / reset
StopClock ==
    /\ clk' = [clk EXCEPT !.running = FALSE]
    /\ clock_op' = "stop"
    /\ UNCHANGED <<total_frames, tick_emitted, clock_frame>>
StartClock ==
    /\ clk' = [clk EXCEPT !.running = TRUE]
    /\ clock_op' = "start"
    /\ UNCHANGED <<total_frames, tick_emitted, clock_frame>>
ResetClock ==
    /\ clk' = [clk EXCEPT !.sample_position = <<0, 0>>, !.tick_counter = 0]
    /\ total_frames' = 0
    /\ clock_op' = "reset"
    /\ UNCHANGED <<tick_emitted, clock_frame>>

\* an assignment to the public field time_signature
SetTimeSignature ==
    \E sig \in TimeSignatures :
        /\ clk' = [clk EXCEPT !.time_signature = sig]
        /\ clock_op' = "time_signature"
        /\ UNCHANGED <<total_frames, tick_emitted, clock_frame>>

\* Scheduler::next_samples(n) of a playing scheduler whose queue is empty and
\* which holds no track, as one step: nothing is popped, promoted or mixed,
\* the returned buffer is silence, the clock is advanced by n and
\* current_frame by n, and a loop wraps.  The scheduler's TempoClock is held
\* in clk, with its f64 values.
NextSamplesOfEmptySession ==
    \E n \in AdvanceChoices :
        LET advanced == advance_by_f64(clk, n)
            frame    == AdvanceFrame(current_frame, n)
            wraps    == looping_enabled /\ frame >= loop_end_frame
        IN  /\ pc = "idle"
            /\ automation_events = <<>>
            /\ transport_state = "Playing"
            /\ scheduled = {}
            /\ active_tracks = <<>>
            /\ frame <= MaxClockFrames
            /\ current_frame' = IF wraps THEN loop_start_frame ELSE frame
            /\ clk' = IF wraps
                      THEN advance_by_f64([advanced EXCEPT !.sample_position = <<0, 0>>,
                                                           !.tick_counter = 0],
                                          loop_start_frame)
                      ELSE advanced
            /\ UNCHANGED <<scheduled, active_tracks, tempo_clock, looping_enabled, loop_points,
                           loop_start_frame, loop_end_frame, transport_state>>
            /\ UNCHANGED <<automation_events, producer_vars, fill_vars, observer_vars>>
            /\ UNCHANGED <<clip_vars, total_frames, tick_emitted, clock_op, quant_vars>>

\* compute_fade_gain(local_frame, clip_len, fade_in, fade_out) as render_audio
\* calls it for a frame of a clip (local_frame < clip_len) whose public
\* fields fade_in and fade_out hold any lengths
ComputeFadeGain ==
    \E clip_len \in 1..MaxFadeFrames, fi \in 0..(MaxFadeFrames + 1),
       fo \in 0..(MaxFadeFrames + 1) :
        \E local_frame \in 0..(clip_len - 1) :
            /\ clip_op' = ClipOp("compute_fade_gain",
                                 [local_frame |-> local_frame, clip_len |-> clip_len,
                                  fade_in |-> Fade(fi, "Linear"),
                                  fade_out |-> Fade(fo, "Linear")],
                                 compute_fade_gain(local_frame, clip_len, Fade(fi, "Linear"),
                                                   Fade(fo, "Linear")))
            /\ UNCHANGED <<clips, clips_made, out, out_start, render_status>>
            /\ UNCHANGED clip_frame

\* a call of Quantizer::quantize_tick_forward
QuantizeTickForward ==
    \E tick \in 0..MaxQuantTick, resolution \in QuantizeResolutions, tpb \in QuantTicksPerBeat :
        LET r == quantize_tick_forward(tick, resolution, tpb)
        IN  /\ quantized' = [op |-> "quantize_tick_forward", tick |-> tick,
                             resolution |-> resolution, ticks_per_beat |-> tpb,
                             status |-> r.status, value |-> r.value]
            /\ UNCHANGED <<session_vars, clip_vars, clock_vars>>

(***************************************************************************)
(* Specification                                                           *)
(***************************************************************************)
\* no TimelineTrack is built outside the scheduler's session
NoClipOp == [op |-> "none", clip |-> 0, arg |-> 0]
ClipIdle ==
    /\ clips = <<>>
    /\ clips_made = 0
    /\ out = <<>>
    /\ out_start = 0
    /\ render_status = "none"
    /\ clip_op = NoClipOp
\* no TempoClock is used outside the scheduler
ClockIdle ==
    /\ clk = TempoClockF64(CHOOSE c \in ClockChoices : c.bpm = 120)
    /\ total_frames = 0
    /\ tick_emitted = FALSE
    /\ clock_op = "none"
\* no Quantizer call yet
QuantIdle ==
    quantized = [op |-> "none", tick |-> 0, resolution |-> "Quarter", ticks_per_beat |-> 0,
                 status |-> "none", value |-> 0]
LibIdle == ClipIdle /\ ClockIdle /\ QuantIdle

\* Scheduler::new with an empty ring buffer and a fresh TempoClock
SchedulerNew ==
    /\ scheduled = {}
    /\ active_tracks = <<>>
    /\ current_frame = 0
    /\ tempo_clock = TempoClockNew(InitialTempo.bpm, InitialTempo.sample_rate,
                                   InitialTempo.resolution)
    /\ looping_enabled = FALSE
    /\ loop_points = "None"
    /\ loop_start_frame = 0
    /\ loop_end_frame = 0
    /\ transport_state = "Stopped"
    /\ automation_events = <<>>
    /\ push_result = "none"
    /\ pc = "idle"
    /\ frame_size = 0
    /\ buffer = <<>>
    /\ accepted = <<>>
    /\ fifo_ok = TRUE
    /\ entry_len = 0
    /\ entry_transport = "Stopped"
    /\ drained = 0
    /\ fill_frame = 0
    /\ promoted = {}
    /\ rendered = <<>>
    /\ tempo_run = <<>>
    /\ start_of = [t \in AllTids |-> -1]
    /\ cancelled = {}
    /\ rewound = {}

\* a session that builds a scheduler and no TimelineTrack of its own
InitScheduler ==
    /\ SchedulerNew
    /\ LibIdle

\* a control thread that has built the tracks of TrackPool and sends at most
\* MaxPushes commands
Init ==
    /\ InitScheduler
    /\ owned = TrackPool
    /\ pushes_left = MaxPushes

\* a control thread that keeps sending transport commands for ever
InitEndless ==
    /\ InitScheduler
    /\ owned = {}
    /\ pushes_left = Endless

\* a session that is already playing: the drain loop of a next_samples(n)
\* entered on an empty queue has just applied a ScheduleTrack for each of some
\* tracks of MixPool and a Play, all pushed while it was running, and the
\* queue is empty again.  The control thread has MixPushes commands left.
InitMix ==
    /\ \E starts \in [MixPool -> MixStartFrames \cup {-1}] :
         LET tracks == { t \in MixPool : starts[t] >= 0 }
         IN  /\ scheduled = { [track |-> t, start_frame |-> starts[t]] : t \in tracks }
             /\ start_of = [id \in AllTids |->
                              IF \E t \in tracks : t.tid = id
                              THEN starts[CHOOSE t \in tracks : t.tid = id]
                              ELSE -1]
             /\ drained = Min(Cardinality(tracks) + 1, Capacity + 1)
    /\ active_tracks = <<>>
    /\ current_frame = 0
    /\ tempo_clock = TempoClockNew(InitialTempo.bpm, InitialTempo.sample_rate,
                                   InitialTempo.resolution)
    /\ looping_enabled = FALSE
    /\ loop_points = "None"
    /\ loop_start_frame = 0
    /\ loop_end_frame = 0
    /\ transport_state = "Playing"
    /\ automation_events = <<>>
    /\ owned = {}
    /\ push_result = "Ok"
    /\ pushes_left = MixPushes
    /\ pc = "drain"
    /\ frame_size \in FrameSizes
    /\ buffer = Silence(frame_size)
    /\ accepted = <<>>
    /\ fifo_ok = TRUE
    /\ entry_len = 0
    /\ entry_transport = "Stopped"
    /\ fill_frame = 0
    /\ promoted = {}
    /\ rendered = <<>>
    /\ tempo_run = <<>>
    /\ cancelled = {}
    /\ rewound = {}
    /\ LibIdle

\* the same playing session with some tracks of pool scheduled
PlayingSession(pool) ==
    /\ \E starts \in [pool -> MixStartFrames \cup {-1}] :
         LET tracks == { t \in pool : starts[t] >= 0 }
         IN  /\ scheduled = { [track |-> t, start_frame |-> starts[t]] : t \in tracks }
             /\ start_of = [id \in AllTids |->
                              IF \E t \in tracks : t.tid = id
                              THEN starts[CHOOSE t \in tracks : t.tid = id]
                              ELSE -1]
             /\ drained = Min(Cardinality(tracks) + 1, Capacity + 1)
    /\ active_tracks = <<>>
    /\ current_frame = 0
    /\ tempo_clock = TempoClockNew(InitialTempo.bpm, InitialTempo.sample_rate,
                                   InitialTempo.resolution)
    /\ looping_enabled = FALSE
    /\ loop_points = "None"
    /\ loop_start_frame = 0
    /\ loop_end_frame = 0
    /\ transport_state = "Playing"
    /\ automation_events = <<>>
    /\ owned = {}
    /\ push_result = "Ok"
    /\ pushes_left = MixPushes
    /\ pc = "drain"
    /\ frame_size \in FrameSizes
    /\ buffer = Silence(frame_size)
    /\ accepted = <<>>
    /\ fifo_ok = TRUE
    /\ entry_len = 0
    /\ entry_transport = "Stopped"
    /\ fill_frame = 0
    /\ promoted = {}
    /\ rendered = <<>>
    /\ tempo_run = <<>>
    /\ cancelled = {}
    /\ rewound = {}
    /\ LibIdle

\* a playing session with tracks of RestartPool
InitRestart == PlayingSession(RestartPool)

\* the control thread of that session: it restarts tracks and pauses
ProduceRestart == \E cmd \in RestartCommands : pushes_left > 0 /\ Push(cmd)

NextRestart ==
    \/ ProduceRestart
    \/ EnterFill
    \/ DrainStep
    \/ FillSilent
    \/ FillRender
    \/ FillReturn

\* the control thread of that session: it stops tracks, changes parameters
\* and pauses
ProduceMix == \E cmd \in MixCommands : pushes_left > 0 /\ Push(cmd)

NextMix ==
    \/ ProduceMix
    \/ EnterFill
    \/ DrainStep
    \/ FillSilent
    \/ FillRender
    \/ FillReturn

Next ==
    \/ Produce
    \/ EnterFill
    \/ DrainStep
    \/ FillSilent
    \/ FillRender
    \/ FillReturn

Spec == Init /\ [][Next]_vars

\* the device keeps calling back and the realtime thread runs every call of
\* next_samples to its end; nothing is assumed of the control thread
FairSpec ==
    /\ InitEndless
    /\ [][Next]_vars
    /\ WF_vars(DrainStep) /\ WF_vars(FillSilent) /\ WF_vars(FillRender)
    /\ WF_vars(FillReturn)


MixSpec == InitMix /\ [][NextMix]_vars

\* a playing session (as InitMix) in which some tracks of TrackPool are
\* pending and the control thread still holds the others: it schedules them
\* while the session plays, or pauses
InitPromote ==
    /\ \E starts \in [TrackPool -> MixStartFrames \cup {-1}] :
         LET tracks == { t \in TrackPool : starts[t] >= 0 }
         IN  /\ scheduled = { [track |-> t, start_frame |-> starts[t]] : t \in tracks }
             /\ start_of = [id \in AllTids |->
                              IF \E t \in tracks : t.tid = id
                              THEN starts[CHOOSE t \in tracks : t.tid = id]
                              ELSE -1]
             /\ drained = Min(Cardinality(tracks) + 1, Capacity + 1)
             /\ owned = TrackPool \ tracks
    /\ active_tracks = <<>>
    /\ current_frame = 0
    /\ tempo_clock = TempoClockNew(InitialTempo.bpm, InitialTempo.sample_rate,
                                   InitialTempo.resolution)
    /\ looping_enabled = FALSE
    /\ loop_points = "None"
    /\ loop_start_frame = 0
    /\ loop_end_frame = 0
    /\ transport_state = "Playing"
    /\ automation_events = <<>>
    /\ push_result = "Ok"
    /\ pushes_left = MixPushes
    /\ pc = "drain"
    /\ frame_size \in FrameSizes
    /\ buffer = Silence(frame_size)
    /\ accepted = <<>>
    /\ fifo_ok = TRUE
    /\ entry_len = 0
    /\ entry_transport = "Stopped"
    /\ fill_frame = 0
    /\ promoted = {}
    /\ rendered = <<>>
    /\ tempo_run = <<>>
    /\ cancelled = {}
    /\ rewound = {}
    /\ LibIdle

PromoteCommands ==
    { ScheduleTrackCmd(t, f) : t \in owned, f \in MixStartFrames } \cup { PauseCmd }

ProducePromote == \E cmd \in PromoteCommands : pushes_left > 0 /\ Push(cmd)

NextPromote ==
    \/ ProducePromote
    \/ EnterFill
    \/ DrainStep
    \/ FillSilent
    \/ FillRender
    \/ FillReturn

\* the device keeps calling back with frame_size > 0 and every call of
\* next_samples runs to its end; nothing is assumed of the control thread
PromoteSpec ==
    /\ InitPromote
    /\ [][NextPromote]_vars
    /\ WF_vars(EnterFill) /\ WF_vars(DrainStep) /\ WF_vars(FillSilent)
    /\ WF_vars(FillRender) /\ WF_vars(FillReturn)

RestartSpec == InitRestart /\ [][NextRestart]_vars

\* the control thread of a playing session that changes and restarts the
\* GainPanTrack of RestartPool, whether it is pending or active
PendingTargetCommands ==
    { ParamChangeCmd(3, c) : c \in ParamChanges } \cup { RestartTrackCmd(3) }
    \cup { PauseCmd }

\* a control thread that sets loops whose end has a field of 0
ZeroLoopCommands ==
    { SetLoopCmd(TRUE, BBT(1, 1, 1), e) :
        e \in { BBT(0, 1, 1), BBT(1, 0, 1), BBT(1, 1, 0), BBT(1, 2, 1) } }
    \cup { PlayCmd }

InitZeroLoop ==
    /\ InitScheduler
    /\ owned = {}
    /\ pushes_left = MaxPushes

ProduceZeroLoop == \E cmd \in ZeroLoopCommands : pushes_left > 0 /\ Push(cmd)

NextZeroLoop ==
    \/ ProduceZeroLoop
    \/ EnterFill
    \/ DrainStep
    \/ DrainPanic
    \/ FillSilent
    \/ FillRender
    \/ FillReturn

ZeroLoopSpec == InitZeroLoop /\ [][NextZeroLoop]_vars

ProducePendingTarget == \E cmd \in PendingTargetCommands : pushes_left > 0 /\ Push(cmd)

NextPendingTarget ==
    \/ ProducePendingTarget
    \/ EnterFill
    \/ DrainStep
    \/ FillSilent
    \/ FillRender
    \/ FillReturn

PendingTargetSpec == InitRestart /\ [][NextPendingTarget]_vars

\* TimelineTrack::new: no clips; the scheduler of the session stays unused
InitTimeline ==
    /\ InitScheduler
    /\ owned = {}
    /\ pushes_left = 0

\* one clip, edited with every clip operation and rendered
NextClip ==
    \/ AddOnlyClip
    \/ Trim
    \/ MoveTo
    \/ Slip
    \/ SetFadeIn
    \/ SetFadeOut
    \/ Render

ClipSpec == InitTimeline /\ [][NextClip]_vars

\* several one-frame clips, added, removed, moved and rendered
NextTimeline ==
    \/ AddClip
    \/ RemoveClip
    \/ MoveTo
    \/ Render

TimelineSpec == InitTimeline /\ [][NextTimeline]_vars

\* compute_fade_gain on its own
NextFade ==
    \/ ComputeFadeGain

FadeSpec == InitTimeline /\ [][NextFade]_vars

\* the Quantizer on its own
NextQuant ==
    \/ QuantizeTickForward

QuantSpec == InitTimeline /\ [][NextQuant]_vars

\* TempoClock::new with one of ClockChoices; no scheduler, no timeline
InitClock ==
    /\ SchedulerNew
    /\ owned = {}
    /\ pushes_left = 0
    /\ ClipIdle
    /\ QuantIdle
    /\ \E choice \in ClockChoices : clk = TempoClockF64(choice)
    /\ total_frames = 0
    /\ tick_emitted = FALSE
    /\ clock_op = "new"

NextClock ==
    \/ Advance
    \/ StopClock
    \/ StartClock
    \/ ResetClock
    \/ SetTimeSignature

ClockSpec == InitClock /\ [][NextClock]_vars

\* Scheduler::new(consumer, TempoClock::new(..)) of any clock, after a fill
\* of no frames applied Play: the scheduler's clock is clk
InitDrift ==
    /\ scheduled = {}
    /\ active_tracks = <<>>
    /\ current_frame = 0
    /\ tempo_clock = TempoClockNew(InitialTempo.bpm, InitialTempo.sample_rate,
                                   InitialTempo.resolution)
    /\ looping_enabled = FALSE
    /\ loop_points = "None"
    /\ loop_start_frame = 0
    /\ loop_end_frame = 0
    /\ transport_state = "Playing"
    /\ automation_events = <<>>
    /\ owned = {}
    /\ push_result = "Ok"
    /\ pushes_left = 0
    /\ pc = "idle"
    /\ frame_size = 0
    /\ buffer = <<>>
    /\ accepted = <<>>
    /\ fifo_ok = TRUE
    /\ entry_len = 0
    /\ entry_transport = "Stopped"
    /\ drained = 0
    /\ fill_frame = 0
    /\ promoted = {}
    /\ rendered = <<>>
    /\ tempo_run = <<>>
    /\ start_of = [t \in AllTids |-> -1]
    /\ cancelled = {}
    /\ rewound = {}
    /\ ClipIdle
    /\ QuantIdle
    /\ \E choice \in ClockChoices : clk = TempoClockF64(choice)
    /\ total_frames = 0
    /\ tick_emitted = FALSE
    /\ clock_op = "new"

NextDrift ==
    \/ NextSamplesOfEmptySession

DriftSpec == InitDrift /\ [][NextDrift]_vars

(***************************************************************************)
(* Properties                                                              *)
(***************************************************************************)
\* the step that ends the drain loop and completes next_samples
FillCompletes == pc = "drain" /\ pc' = "return"

C3_StopCancelsEveryTrack ==
    /\ cancelled \cap (PendingTids \cup ActiveTids) = {}
    /\ \A i \in 1..Len(rendered) : rendered[i] \notin cancelled

\* C4 as claimed: while the transport stays Playing current_frame never
\* decreases, and every Playing fill adds frame_size to it.
C4_FrameAdvancesByFrameCount ==
    [][(transport_state = "Playing" /\ transport_state' = "Playing")
        => /\ current_frame' >= current_frame
           /\ FillCompletes => current_frame' = current_frame + frame_size]_vars

\* C4 amended: every Playing fill adds frame_size to current_frame, unless
\* looping is enabled and the advanced frame reaches loop_end_frame, in which
\* case it leaves current_frame = loop_start_frame; no other step of a
\* Playing segment changes current_frame.
C4_FrameAdvancesOrWraps ==
    [][(transport_state = "Playing" /\ transport_state' = "Playing")
        => IF FillCompletes
           THEN IF looping_enabled /\ current_frame + frame_size >= loop_end_frame
                THEN current_frame' = loop_start_frame
                ELSE current_frame' = current_frame + frame_size
           ELSE current_frame' = current_frame]_vars

\* a Playing fill of two frames that no command interrupted has wrapped
C4_Witness ==
    /\ pc = "return"
    /\ transport_state = "Playing"
    /\ entry_transport = "Playing"
    /\ drained = 0
    /\ frame_size = 2
    /\ looping_enabled
    /\ fill_frame + frame_size >= loop_end_frame
    /\ current_frame = loop_start_frame
    /\ current_frame < fill_frame

\* the promotion step of a Playing fill: a pending track moves to the active
\* list iff its start_frame <= current_frame, and none that is due stays
PromotionIsExact ==
    FillCompletes /\ transport_state = "Playing"
        => \A e \in scheduled :
             /\ (e.track.tid \in TidsOf(active_tracks')) <=> (e.start_frame <= current_frame)
             /\ (e \in scheduled') <=> (e.start_frame > current_frame)

\* C5 as claimed: promotion is exact, and no track is rendered into a buffer
\* that begins at a current_frame smaller than its start_frame.
C5_NeverBeforeStartFrame ==
    [][/\ PromotionIsExact
       /\ (FillCompletes /\ transport_state = "Playing")
            => \A i \in 1..Len(rendered') : start_of[rendered'[i]] <= current_frame]_vars

\* C5 amended: promotion is exact, and no track is rendered into a buffer that
\* begins at a current_frame smaller than its start_frame unless a loop wrap
\* has moved current_frame back since the track became active.
C5_NeverBeforeStartFrameUnlessWrapped ==
    [][/\ PromotionIsExact
       /\ (FillCompletes /\ transport_state = "Playing")
            => \A i \in 1..Len(rendered') :
                 rendered'[i] \notin rewound => start_of[rendered'[i]] <= current_frame]_vars

\* a fill has promoted one track and left a later one pending
C5_Witness ==
    /\ pc = "return"
    /\ transport_state = "Playing"
    /\ promoted # {}
    /\ \E e \in scheduled : e.start_frame > fill_frame
    /\ \A t \in promoted : start_of[t] <= fill_frame

\* C6: a Playing fill(n) that starts at frame c makes every pending track
\* with start_frame in [c, c + n) active and renders it into this buffer.
C6_WindowTracksStartInThisFill ==
    [][(FillCompletes /\ transport_state = "Playing")
        => \A e \in scheduled :
             (current_frame <= e.start_frame /\ e.start_frame < current_frame + frame_size)
                => /\ e.track.tid \in TidsOf(active_tracks')
                   /\ \E i \in 1..Len(rendered') : rendered'[i] = e.track.tid
                   /\ buffer'[1][1] >= e.track.samples[1][1]]_vars

\* C7: every command queued when the fill was entered has been applied, in
\* queue order, when the fill promotes, renders and advances; the fill that
\* applied Play and a ScheduleTrack renders the due track and advances.
C7_EntryCommandsAppliedBeforeRender ==
    /\ fifo_ok
    /\ pc = "return" => drained >= entry_len
    /\ (pc = "return" /\ transport_state = "Playing")
         => /\ \A e \in scheduled : e.start_frame > fill_frame
            /\ ActiveTids \subseteq { rendered[i] : i \in 1..Len(rendered) }
            /\ Len(buffer) = frame_size

\* Play and ScheduleTrack, the only two commands sent, were both queued when a
\* fill was entered while Stopped; that fill rendered the track and advanced
C7_Witness ==
    /\ pc = "return"
    /\ pushes_left = MaxPushes - 2
    /\ entry_len = 2
    /\ drained = 2
    /\ entry_transport = "Stopped"
    /\ transport_state = "Playing"
    /\ promoted # {}
    /\ Len(rendered) = 1
    /\ buffer[1][1] > 0
    /\ current_frame = frame_size

\* C8: the commands whose push succeeded are popped exactly once and in push
\* order: each popped command is the oldest accepted one, and the accepted
\* commands not yet applied are exactly the queue.
C8_AppliedOnceInPushOrder ==
    /\ fifo_ok
    /\ accepted = automation_events

\* the producer pushed while the drain loop was running and the loop has
\* applied more commands than were queued at entry
C8_Witness ==
    /\ pc = "drain"
    /\ entry_len >= 1
    /\ drained > entry_len
    /\ automation_events # <<>>

\* C9: a push onto a full queue returns Full and leaves the queue as it is, so
\* the consumer never sees the command; a push onto a queue with a free slot
\* returns Ok and appends the command.
C9_PushOnFullQueueFails ==
    [][/\ Len(automation_events) >= Capacity
            => automation_events' = automation_events
               \/ automation_events' = Tail(automation_events)
       /\ (push_result' = "Full" /\ push_result # "Full")
            => /\ Len(automation_events) = Capacity
               /\ automation_events' = automation_events
               /\ accepted' = accepted
       /\ Len(automation_events') > Len(automation_events)
            => /\ Len(automation_events) < Capacity
               /\ push_result' = "Ok"
               /\ SubSeq(automation_events', 1, Len(automation_events)) = automation_events
       /\ (push_result' = "Ok" /\ push_result # "Ok")
            => Len(automation_events') = Len(automation_events) + 1]_vars

\* a push has failed on a full queue
C9_Witness ==
    /\ push_result = "Full"
    /\ Len(automation_events) = Capacity
    /\ accepted = automation_events

\* C10: every call of next_samples leaves its drain loop, whatever the
\* producer does meanwhile.
C10_DrainLoopTerminates == (pc = "drain") ~> (pc = "return")

\* the drain loop applies a command of one of the given types in this step
Applies(types) ==
    /\ pc = "drain"
    /\ automation_events # <<>>
    /\ automation_events' = Tail(automation_events)
    /\ Head(automation_events).type \in types

RenderCompletes == FillCompletes /\ transport_state = "Playing"

\* C12: a Playing fill ends with current_frame = loop_start_frame exactly when
\* looping is enabled and current_frame + frame_size >= loop_end_frame; in
\* every other case, in particular with looping disabled, it ends with
\* current_frame + frame_size, even beyond loop_end_frame.
C12_WrapIffLoopingAndPastEnd ==
    [][RenderCompletes
        => /\ (looping_enabled /\ current_frame + frame_size >= loop_end_frame)
                => current_frame' = loop_start_frame
           /\ ~(looping_enabled /\ current_frame + frame_size >= loop_end_frame)
                => current_frame' = current_frame + frame_size
           /\ ~looping_enabled => current_frame' > current_frame
           /\ loop_start_frame' = loop_start_frame
           /\ loop_end_frame' = loop_end_frame
           /\ looping_enabled' = looping_enabled]_vars

\* looping was enabled and then disabled, and a fill has taken current_frame
\* beyond the loop end that is still stored
C12_Witness ==
    /\ pc = "return"
    /\ transport_state = "Playing"
    /\ ~looping_enabled
    /\ loop_end_frame > 0
    /\ fill_frame < loop_end_frame
    /\ current_frame > loop_end_frame

\* C13: whenever looping is enabled, loop_start_frame < loop_end_frame.
C13_LoopRegionIsNonEmpty ==
    looping_enabled => loop_start_frame < loop_end_frame

\* total_ticks of a {bar, beat, tick} position on a clock, as the claim writes it
TotalTicks(pos, clock) ==
    (pos.bar - 1) * clock.time_signature.beats_per_bar * clock.ticks_per_beat
    + (pos.beat - 1) * clock.ticks_per_beat
    + (pos.tick - 1)

\* frame is total_ticks * samples_per_tick rounded to the nearest integer, a
\* half rounding up: frame - 1/2 <= ticks * num / den < frame + 1/2
IsRounded(frame, ticks, spt) ==
    /\ 2 * spt.den * frame - spt.den <= 2 * ticks * spt.num
    /\ 2 * ticks * spt.num < 2 * spt.den * frame + spt.den

\* the clock of the claim's example, 120 BPM, Sixteenth, 4/4, at a hundredth of
\* its sample rate (441 Hz: 1.8375 frames per tick) to stay within TLC's integers
ExampleClock == TempoClockNew(120, 441, [kind |-> "Sixteenth", val |-> 0])

\* C14: the step that applies SetLoop{enabled: true, start, end} stores for
\* each endpoint round(total_ticks * samples_per_tick) on the tempo clock of
\* that moment, and a later SetTempo does not convert them again; on the
\* example clock 1.1.1 is frame 0 and 2.1.1 is frame 882 = round(480 * 1.8375).
C14_LoopEndpointsAreRoundedTicks ==
    [][/\ (Applies({"SetLoop"}) /\ Head(automation_events).enabled)
            => LET cmd == Head(automation_events)
               IN  /\ looping_enabled'
                   /\ IsRounded(loop_start_frame', TotalTicks(cmd.start, tempo_clock),
                                tempo_clock.samples_per_tick)
                   /\ IsRounded(loop_end_frame', TotalTicks(cmd.end, tempo_clock),
                                tempo_clock.samples_per_tick)
       /\ Applies({"SetTempo"})
            => loop_start_frame' = loop_start_frame /\ loop_end_frame' = loop_end_frame
       /\ TicksToFrame(bbt_to_tick_count(ExampleClock,
                [start_bar |-> 1, start_beat |-> 1, start_tick |-> 1,
                 end_bar |-> 2, end_beat |-> 1, end_tick |-> 1], TRUE),
                ExampleClock.samples_per_tick) = 0
       /\ TicksToFrame(bbt_to_tick_count(ExampleClock,
                [start_bar |-> 1, start_beat |-> 1, start_tick |-> 1,
                 end_bar |-> 2, end_beat |-> 1, end_tick |-> 1], FALSE),
                ExampleClock.samples_per_tick) = 882]_vars

\* SetLoop(1.1.2 -> 1.2.1) has just been applied at 2.5 frames per tick: the
\* start is 2.5 rounded to 3, the end is 5
C14_Witness ==
    /\ pc = "drain"
    /\ drained >= 1
    /\ looping_enabled
    /\ tempo_clock.bpm = InitialTempo.bpm
    /\ loop_points.start_tick = 2
    /\ loop_start_frame = 3
    /\ loop_end_frame = 5

\* the position of a clock on its own grid, in frames times den
ClockFrames(clock) ==
    clock.tick_counter * clock.samples_per_tick.num + clock.sample_position

\* C15: the step that applies SetTempo{bpm, resolution} leaves a clock with
\* tick_counter 0, sample_position 0, the scheduler's sample rate and
\* samples_per_tick = sample_rate * 60 / (bpm * ticks_per_beat), and leaves
\* current_frame, the transport state, the pending heap and the active list
\* alone; every Playing fill that does not wrap then moves the clock by
\* frame_size frames on its grid.
C15_SetTempoBuildsFreshClock ==
    [][/\ Applies({"SetTempo"})
            => LET cmd == Head(automation_events)
               IN  /\ tempo_clock'.tick_counter = 0
                   /\ tempo_clock'.sample_position = 0
                   /\ tempo_clock'.running
                   /\ tempo_clock'.bpm = cmd.bpm
                   /\ tempo_clock'.sample_rate = tempo_clock.sample_rate
                   /\ tempo_clock'.ticks_per_beat = cmd.resolution.val
                   /\ tempo_clock'.samples_per_tick.num * cmd.bpm * cmd.resolution.val
                        = tempo_clock'.samples_per_tick.den * tempo_clock.sample_rate * 60
                   /\ current_frame' = current_frame
                   /\ transport_state' = transport_state
                   /\ scheduled' = scheduled
                   /\ active_tracks' = active_tracks
       /\ (RenderCompletes
             /\ ~(looping_enabled /\ current_frame + frame_size >= loop_end_frame))
            => /\ ClockFrames(tempo_clock')
                    = ClockFrames(tempo_clock) + frame_size * tempo_clock.samples_per_tick.den
               /\ tempo_clock'.sample_position < tempo_clock.samples_per_tick.num
               /\ tempo_clock'.samples_per_tick = tempo_clock.samples_per_tick]_vars

\* SetTempo(60, PPQN(2)) was applied while Playing at a frame where the old
\* clock had counted a tick, and the same fill has rendered one frame on the
\* new grid of 5 frames per tick
C15_Witness ==
    /\ pc = "return"
    /\ entry_transport = "Playing"
    /\ transport_state = "Playing"
    /\ drained = 1
    /\ fill_frame >= 3
    /\ frame_size = 1
    /\ current_frame = fill_frame + 1
    /\ tempo_clock.bpm = 60
    /\ tempo_clock.tick_counter = 0
    /\ tempo_clock.sample_position = tempo_clock.samples_per_tick.den

\* C16: applying SetTempo(x) directly after SetTempo(x) changes nothing: the
\* tempo clock (bpm, ticks_per_beat, samples_per_tick, tick_counter,
\* sample_position, running) and the rest of the scheduler are those the first
\* application left.
C16_SetTempoIsIdempotent ==
    [][(/\ Applies({"SetTempo"})
        /\ tempo_run # <<>>
        /\ tempo_run[1] = Head(automation_events))
        => /\ tempo_clock' = tempo_clock
           /\ sched_vars' = sched_vars]_vars

\* the same SetTempo has been applied twice in a row, the first time on a
\* clock that had counted a tick
C16_Witness ==
    /\ pc = "drain"
    /\ Len(tempo_run) = 2
    /\ drained = 2
    /\ current_frame >= 3
    /\ tempo_clock.bpm = 60
    /\ tempo_clock.tick_counter = 0

\* the positions of seq whose track does not have the given id
KeptPositions(seq, id) == { i \in 1..Len(seq) : TrackId(seq[i]) # id }

\* C17: the step that applies StopTrack{target_id} leaves in the active list
\* exactly the tracks whose id differs from target_id, in their former order,
\* and leaves the pending heap alone; a pending track is promoted and
\* rendered by the first Playing fill that begins at or after its start_frame,
\* whether or not a StopTrack named it before.
C17_StopTrackRemovesActiveOnly ==
    [][/\ Applies({"StopTrack"})
            => LET id   == Head(automation_events).target_id
                   keep == KeptPositions(active_tracks, id)
               IN  /\ Len(active_tracks') = Cardinality(keep)
                   /\ \A k \in 1..Len(active_tracks') :
                        /\ TrackId(active_tracks'[k]) # id
                        /\ \E i \in keep :
                             /\ Cardinality({ j \in keep : j < i }) = k - 1
                             /\ active_tracks'[k] = active_tracks[i]
                   /\ scheduled' = scheduled
                   /\ current_frame' = current_frame
                   /\ transport_state' = transport_state
       /\ RenderCompletes
            => \A e \in scheduled :
                 e.start_frame <= current_frame
                    => /\ e.track.tid \in TidsOf(active_tracks')
                       /\ \E i \in 1..Len(rendered') : rendered'[i] = e.track.tid]_vars

\* three tracks were active, StopTrack has removed the WavTrack and the two
\* others are still active, the GainPanTrack before the ConstantTrack
C17_Witness ==
    /\ pc = "drain"
    /\ drained >= 1
    /\ cancelled = {}
    /\ start_of[2] = 0
    /\ 2 \notin PendingTids \cup ActiveTids
    /\ Len(active_tracks) = 2
    /\ active_tracks[1].tid = 3
    /\ active_tracks[2].tid = 1

\* the track of that identity as it is before the fill renders it
TrackBefore(tid) ==
    IF \E i \in 1..Len(active_tracks) : active_tracks[i].tid = tid
    THEN active_tracks[CHOOSE i \in 1..Len(active_tracks) : active_tracks[i].tid = tid]
    ELSE (CHOOSE e \in scheduled : e.track.tid = tid).track

\* frame i of what the track produces for a buffer of n frames on its own
OwnFrame(tid, n, i) == fill_next_samples(TrackBefore(tid), Silence(n)).samples[i]

RECURSIVE SumOwnFrames(_, _, _)
\* the sum of frame i of the own outputs of the tracks named by tids
SumOwnFrames(tids, n, i) ==
    IF tids = <<>> THEN <<0, 0>>
    ELSE AddFrame(OwnFrame(Head(tids), n, i), SumOwnFrames(Tail(tids), n, i))

\* C18: frame i of the buffer a Playing fill returns is the sum, over the
\* active tracks, of frame i of what each track produces on its own into a
\* silent scratch buffer.
C18_MixIsSumOfOwnOutputs ==
    [][RenderCompletes
        => \A i \in 1..frame_size :
             buffer'[i] = SumOwnFrames(rendered', frame_size, i)]_vars

\* the buffer the fill returns when the heap pops the due entries in that order
BufferFor(order) ==
    MixLoop(active_tracks \o [i \in 1..Len(order) |-> order[i].track], 1,
            Silence(frame_size), Silence(frame_size)).buffer

\* C19: the buffer of a Playing fill does not depend on the order in which
\* tracks of equal start_frame were scheduled, which is the order in which
\* the promotion loop pops them.
C19_MixIsCommutative ==
    [][RenderCompletes
        => \A order \in PopOrders(DueEntries(scheduled, current_frame)) :
             buffer' = BufferFor(order)]_vars

RECURSIVE ParamApplied(_, _, _, _)
\* after is before with the change made at the outermost GainPan track of
\* that id and nowhere else; SetGain keeps pan and SetPan keeps gain
ParamApplied(before, after, id, change) ==
    IF before.kind # "GainPan"
    THEN after = before
    ELSE /\ after.kind = "GainPan"
         /\ after.tid = before.tid
         /\ IF before.tid = id
            THEN /\ after.inner = before.inner
                 /\ after.gain = (IF change.kind = "SetGain" THEN change.val ELSE before.gain)
                 /\ after.pan = (IF change.kind = "SetPan" THEN change.val ELSE before.pan)
            ELSE /\ after.gain = before.gain
                 /\ after.pan = before.pan
                 /\ ParamApplied(before.inner, after.inner, id, change)

\* C20: the step that applies ParamChange{target_id, change} sets the gain or
\* the pan of the GainPan tracks of that id among the active tracks and their
\* inner tracks, SetGain keeping pan and SetPan keeping gain, and changes no
\* other track, nor the pending heap, current_frame, the transport state or
\* the buffer; the next Playing fill renders with the new values: a lone
\* GainPan(g, p) around GainPan(g', p') around the constant (4, 4) gives
\* (g(1-p)g'(1-p'), g(1+p)g'(1+p')).
C20_ParamChangeSetsMatchingGainPan ==
    [][/\ Applies({"ParamChange"})
            => LET cmd == Head(automation_events)
               IN  /\ Len(active_tracks') = Len(active_tracks)
                   /\ \A i \in 1..Len(active_tracks) :
                        ParamApplied(active_tracks[i], active_tracks'[i],
                                     cmd.target_id, cmd.change)
                   /\ scheduled' = scheduled
                   /\ current_frame' = current_frame
                   /\ transport_state' = transport_state
                   /\ tempo_clock' = tempo_clock
                   /\ buffer' = buffer
       /\ (RenderCompletes /\ rendered' = <<3>>)
            => LET t == TrackBefore(3)
               IN  \A i \in 1..frame_size :
                     buffer'[i] = << t.gain * (1 - t.pan) * t.inner.gain * (1 - t.inner.pan),
                                     t.gain * (1 + t.pan) * t.inner.gain * (1 + t.inner.pan) >>]_vars

\* SetGain(2) for the inner GainPan track was applied to the active outer
\* track, which kept its own gain, and the fill has rendered (2, 2) instead
\* of (1, 1)
C20_Witness ==
    /\ pc = "return"
    /\ drained >= 1
    /\ Len(active_tracks) = 1
    /\ fill_frame >= 1
    /\ active_tracks[1].tid = 3
    /\ active_tracks[1].gain = 1
    /\ active_tracks[1].pan = 0
    /\ active_tracks[1].inner.gain = 2
    /\ active_tracks[1].inner.pan = 0
    /\ buffer[1] = <<2, 2>>

\* the track as it was built, i.e. as it is when it is activated
AsScheduled(tid) == CHOOSE t \in RestartPool : t.tid = tid

C22_RenderNeverFails ==
    /\ render_status # "panic"
    /\ render_status = "ok" => Len(out) = clip_op.arg

\* the global frame of index i of the last rendered buffer
GlobalFrame(i) == out_start + i - 1

\* frame g lies in [start_frame, start_frame + duration_frames) of the clip
InClipRange(clip, g) ==
    g >= clip.timing.start_frame /\ g < clip.timing.start_frame + clip.timing.duration_frames

\* C23: whatever the render window and whatever trim, move_to, slip and fade
\* calls came before, the buffer rendered from a silent one for a non-looping
\* clip is (0,0) at every index whose global frame lies outside
\* [start_frame, start_frame + duration_frames) of the clip.
C23_NonLoopingClipSilentOutsideRange ==
    (render_status = "ok" /\ Len(clips) = 1 /\ ~clips[1].looping)
        => \A i \in 1..Len(out) :
             ~InClipRange(clips[1], GlobalFrame(i)) => out[i] = <<0, 0>>

\* a two-frame window over the end of a non-looping clip that does not start
\* at frame 0: the frame inside is heard, the frame behind the end is silent
C23_Witness ==
    /\ render_status = "ok"
    /\ Len(clips) = 1
    /\ ~clips[1].looping
    /\ clips[1].timing.start_frame >= 1
    /\ Len(out) = 2
    /\ GlobalFrame(2) = ends_at(clips[1])
    /\ out[1] # <<0, 0>>
    /\ out[2] = <<0, 0>>

\* the clip loops over a duration D > 0 and has no fades
LoopsWithoutFades(clip) ==
    /\ clip.looping
    /\ clip.timing.duration_frames > 0
    /\ clip.fade_in.length_frames = 0
    /\ clip.fade_out.length_frames = 0

\* C24: for a looping clip of duration D > 0 without fades (gain 1, pan 0),
\* the frame rendered at global frame g >= start_frame is the source frame
\* start_offset + ((g - start_frame) mod D), and every window that renders a
\* frame a multiple of D away from g renders the same frame there.
C24_LoopingClipIsPeriodic ==
    (render_status = "ok" /\ Len(clips) = 1 /\ LoopsWithoutFades(clips[1]))
        => LET clip == clips[1]
               D    == clip.timing.duration_frames
           IN  \A i \in 1..Len(out) :
                 GlobalFrame(i) >= clip.timing.start_frame
                   => /\ out[i] = ReadFrame(clip.start_offset
                                     + ((GlobalFrame(i) - clip.timing.start_frame) % D))
                      /\ \A s \in RenderStarts, n \in RenderCounts : \A j \in 1..n :
                           (/\ s + j - 1 >= clip.timing.start_frame
                            /\ (s + j - 1 - GlobalFrame(i)) % D = 0)
                             => render_audio(clips, s, n, Silence(n))[j] = out[i]

\* the second pass over a looping clip of two frames: the window starts one
\* period after the clip and holds the two source frames again
C24_Witness ==
    /\ render_status = "ok"
    /\ Len(clips) = 1
    /\ LoopsWithoutFades(clips[1])
    /\ clips[1].timing.duration_frames = 2
    /\ out_start = clips[1].timing.start_frame + 2
    /\ Len(out) = 2
    /\ out[1] = ReadFrame(clips[1].start_offset)
    /\ out[2] = ReadFrame(clips[1].start_offset + 1)
    /\ out[1] # out[2]

\* the step is a set_fade_in, set_fade_out or trim call on the clip
FadeCall == clip_op' # clip_op /\ clip_op'.op \in {"set_fade_in", "set_fade_out", "trim"}
\* the lengths the call asks for, before clamp_fades
AskedFadeIn ==
    IF clip_op'.op = "set_fade_in" THEN clip_op'.arg ELSE clips[1].fade_in.length_frames
AskedFadeOut ==
    IF clip_op'.op = "set_fade_out" THEN clip_op'.arg ELSE clips[1].fade_out.length_frames
AskedDuration ==
    IF clip_op'.op = "trim" THEN clip_op'.arg ELSE clips[1].timing.duration_frames

\* C25: after every set_fade_in, set_fade_out and trim call
\* fade_in + fade_out <= duration; a call that asks for more leaves
\* fade_in = floor(fade_in * duration / (fade_in + fade_out)) and
\* fade_out = duration - fade_in, any other call leaves what it asked for.
C25_FadesClampedProportionally ==
    [][FadeCall
        => LET clip == clips'[1]
           IN  /\ clip.timing.duration_frames = AskedDuration
               /\ clip.fade_in.length_frames + clip.fade_out.length_frames
                    <= clip.timing.duration_frames
               /\ IF AskedFadeIn + AskedFadeOut > AskedDuration
                  THEN /\ clip.fade_in.length_frames
                            = (AskedFadeIn * AskedDuration) \div (AskedFadeIn + AskedFadeOut)
                       /\ clip.fade_out.length_frames
                            = AskedDuration - clip.fade_in.length_frames
                  ELSE /\ clip.fade_in.length_frames = AskedFadeIn
                       /\ clip.fade_out.length_frames = AskedFadeOut]_vars

\* C26: advance_by on a clock that is not running returns false and leaves
\* tick_counter and sample_position as they were; on a running clock it
\* returns true exactly when tick_counter increased during the call.
C26_AdvanceReportsTicks ==
    [][clock_op' = "advance_by"
        => IF ~clk.running
           THEN /\ ~tick_emitted'
                /\ clk'.tick_counter = clk.tick_counter
                /\ clk'.sample_position = clk.sample_position
           ELSE tick_emitted' <=> (clk'.tick_counter > clk.tick_counter)]_vars

\* a stopped clock that has ticked before was advanced
C26_Witness ==
    /\ clock_op = "advance_by"
    /\ ~clk.running
    /\ clk.tick_counter > 0
    /\ clk.sample_position # <<0, 0>>

\* a - b (a >= b) without rounding
ExactSub(a, b) ==
    IF a[2] >= b[2] THEN <<a[1] - b[1], a[2] - b[2]>>
    ELSE <<a[1] - b[1] - 1, a[2] + F64Base - b[2]>>

RECURSIVE FloorQuotient(_, _)
\* q.n + floor(q.rest / spt) for the real numbers q.rest and spt
FloorQuotient(q, spt) ==
    IF F64Ge(q.rest, spt)
    THEN FloorQuotient([rest |-> ExactSub(q.rest, spt), n |-> q.n + 1], spt)
    ELSE q.n

\* the clock after one advance_by(total_frames) from the reset position
OneCall == advance_by_f64([clk EXCEPT !.sample_position = <<0, 0>>, !.tick_counter = 0],
                          total_frames)

\* the part of C27 about sample_position
PositionBelowTick ==
    clk.running => /\ F64Ge(clk.sample_position, <<0, 0>>)
                   /\ ~F64Ge(clk.sample_position, clk.samples_per_tick)
\* the parts of C27 about tick_counter
TicksAreFloor ==
    clk.running => clk.tick_counter = FloorQuotient([rest |-> F64FromFrames(total_frames), n |-> 0],
                                                   clk.samples_per_tick)
TicksSplitFree ==
    clk.running => clk.tick_counter = OneCall.tick_counter

\* C27: on a running clock, after any advance_by calls since the last reset,
\* 0 <= sample_position < samples_per_tick and tick_counter is
\* floor(total_frames / samples_per_tick), the count one advance_by of
\* total_frames gives, however the frames were split into calls.
C27_TicksDependOnTotalOnly ==
    /\ PositionBelowTick
    /\ TicksAreFloor
    /\ TicksSplitFree

\* C28: bar_beat_tick returns bar = tick_counter / ticks_per_bar + 1,
\* beat = (tick_counter mod ticks_per_bar) / ticks_per_beat + 1 and
\* tick = (tick_counter mod ticks_per_bar) mod ticks_per_beat + 1, with
\* 1 <= beat <= beats_per_bar and 1 <= tick <= ticks_per_beat, and the
\* triple counts back to tick_counter.
C28_BarBeatTickOneBased ==
    LET bbt           == bar_beat_tick(clk)
        beats_per_bar == clk.time_signature.beats_per_bar
        ticks_per_bar == clk.ticks_per_beat * beats_per_bar
    IN  /\ bbt[1] = (clk.tick_counter \div ticks_per_bar) + 1
        /\ bbt[2] = ((clk.tick_counter % ticks_per_bar) \div clk.ticks_per_beat) + 1
        /\ bbt[3] = ((clk.tick_counter % ticks_per_bar) % clk.ticks_per_beat) + 1
        /\ 1 <= bbt[2] /\ bbt[2] <= beats_per_bar
        /\ 1 <= bbt[3] /\ bbt[3] <= clk.ticks_per_beat
        /\ (bbt[1] - 1) * ticks_per_bar + (bbt[2] - 1) * clk.ticks_per_beat + (bbt[3] - 1)
             = clk.tick_counter

\* the last tick of the last beat of a bar after the first, in a signature
\* of several beats
C28_Witness ==
    LET bbt == bar_beat_tick(clk)
    IN  /\ clk.time_signature.beats_per_bar > 1
        /\ bbt[1] > 1
        /\ bbt[2] = clk.time_signature.beats_per_bar
        /\ bbt[3] = clk.ticks_per_beat

\* C29: in every state of a TimelineTrack whose clips are added, removed and
\* moved, the clips are in non-decreasing order of timing.start_frame.
C29_ClipsOrderedByStartFrame ==
    \A i \in 1..(Len(clips) - 1) :
        clips[i].timing.start_frame <= clips[i + 1].timing.start_frame

\* the relation of C30 for the scheduler whose clock has samples_per_tick 2.5
\* (every sum exact): it holds in every state of Spec
TickFollowsFrameExactly ==
    (pc = "idle" /\ tempo_clock.bpm = InitialTempo.bpm)
        => current_tick = (current_frame * tempo_clock.samples_per_tick.den)
                            \div tempo_clock.samples_per_tick.num

\* C30: in a run without SetTempo, after every fill current_tick is
\* floor(current_frame / samples_per_tick).
C30_TickFollowsFrame ==
    pc = "idle"
        => clk.tick_counter = FloorQuotient([rest |-> F64FromFrames(current_frame), n |-> 0],
                                            clk.samples_per_tick)

\* the arguments and the result of the last compute_fade_gain call
FadeArgs == clip_op.clip
FadeResult == clip_op.arg
InFadeIn ==
    FadeArgs.fade_in.length_frames > 0
        /\ FadeArgs.local_frame < FadeArgs.fade_in.length_frames
InFadeOut ==
    FadeArgs.fade_out.length_frames > 0
        /\ FadeArgs.local_frame + FadeArgs.fade_out.length_frames >= FadeArgs.clip_len
\* the fraction g equals a / b
IsFraction(g, a, b) == g.num * b = a * g.den
\* the smaller of the fractions a / b and c / d
IsSmaller(g, a, b, c, d) ==
    IF a * d <= c * b THEN IsFraction(g, a, b) ELSE IsFraction(g, c, d)

\* C31: compute_fade_gain returns 1 outside both fade zones, local / fade_in
\* inside a Linear fade-in, ((duration - 1) - local) / fade_out inside a
\* Linear fade-out, the smaller of the two where both zones hold local, and
\* a value in [0, 1] for every local in [0, duration).
C31_FadeGainByZone ==
    clip_op.op = "compute_fade_gain"
        => LET local    == FadeArgs.local_frame
               from_end == (FadeArgs.clip_len - 1) - local
               fi       == FadeArgs.fade_in.length_frames
               fo       == FadeArgs.fade_out.length_frames
           IN  /\ FadeResult.den > 0
               /\ 0 <= FadeResult.num /\ FadeResult.num <= FadeResult.den
               /\ (~InFadeIn /\ ~InFadeOut) => IsFraction(FadeResult, 1, 1)
               /\ (InFadeIn /\ ~InFadeOut) => IsFraction(FadeResult, local, fi)
               /\ (~InFadeIn /\ InFadeOut) => IsFraction(FadeResult, from_end, fo)
               /\ (InFadeIn /\ InFadeOut) => IsSmaller(FadeResult, local, fi, from_end, fo)
               /\ (InFadeIn /\ local = 0) => FadeResult.num = 0
               /\ (InFadeOut /\ from_end = 0) => FadeResult.num = 0

\* both fades hold the frame and the fade-out gain, the smaller one, is
\* returned
C31_Witness ==
    /\ clip_op.op = "compute_fade_gain"
    /\ InFadeIn /\ InFadeOut
    /\ FadeArgs.local_frame > 0
    /\ FadeResult.num * FadeArgs.fade_in.length_frames
          < FadeArgs.local_frame * FadeResult.den

\* the tracks a fill rendered, as they were before it, and a list of their
\* ids without one of them
TracksBefore(tids) == [i \in 1..Len(tids) |-> TrackBefore(tids[i])]
Without(tids, tid) == SelectSeq(tids, LAMBDA t : t # tid)
\* a WavTrack with no frame left
Exhausted(track) == track.kind = "Wav" /\ track.position >= Len(track.samples)
\* the buffer next_samples returns for those tracks
MixOf(tracks) == MixLoop(tracks, 1, Silence(frame_size), Silence(frame_size)).buffer

\* C32: a WavTrack's position never passes samples.len(), and a WavTrack
\* that is exhausted when a fill renders it adds (0,0) to every frame: the
\* buffer is the one the other active tracks give without it.
C32_ExhaustedWavTrackIsSilent ==
    [][RenderCompletes
        => /\ \A i \in 1..Len(active_tracks') :
                active_tracks'[i].kind = "Wav"
                    => active_tracks'[i].position <= Len(active_tracks'[i].samples)
           /\ \A k \in 1..Len(rendered') :
                Exhausted(TrackBefore(rendered'[k]))
                    => buffer' = MixOf(TracksBefore(Without(rendered', rendered'[k])))]_vars

\* C33: quantize_tick_forward returns the smallest multiple of the grid size
\* that is >= tick, for every tick, resolution and ticks_per_beat: a tick on
\* the grid is returned as it is, the result is < tick + grid size, and
\* quantizing the result gives the result.
C33_ForwardQuantizeIsLeastGridMultiple ==
    quantized.op = "quantize_tick_forward"
        => LET grid_size == ticks_per_grid_unit(quantized.resolution, quantized.ticks_per_beat)
               again     == quantize_tick_forward(quantized.value, quantized.resolution,
                                                  quantized.ticks_per_beat)
           IN  /\ quantized.status = "ok"
               /\ grid_size > 0
               /\ quantized.value % grid_size = 0
               /\ quantized.value >= quantized.tick
               /\ quantized.value < quantized.tick + grid_size
               /\ (quantized.tick % grid_size = 0) => quantized.value = quantized.tick
               /\ again.status = "ok" /\ again.value = quantized.value

\* ids of the tracks still with the control thread or in the queue
OwnedTids == { t.tid : t \in owned }
QueuedTids ==
    { automation_events[i].track.tid :
        i \in { j \in 1..Len(automation_events) : automation_events[j].type = "ScheduleTrack" } }
\* the track was handed to the scheduler and is in neither collection
Gone(tid) == tid \notin (OwnedTids \cup QueuedTids \cup PendingTids \cup ActiveTids)
\* the entries of one collection name different tracks
NoTrackTwice ==
    /\ \A i, j \in 1..Len(active_tracks) : active_tracks[i].tid = active_tracks[j].tid => i = j
    /\ \A d, e \in scheduled : d.track.tid = e.track.tid => d = e

\* C34: a track is in at most one of the pending heap and the active list,
\* and once in each; it becomes active only by leaving the heap, enters the
\* heap only from the queue, and once it is in neither collection it never
\* comes back.
C34_TrackConservation ==
    [][/\ PendingTids' \cap ActiveTids' = {}
       /\ NoTrackTwice'
       /\ \A tid \in AllTids :
            /\ (tid \in ActiveTids' /\ tid \notin ActiveTids)
                 => (tid \in PendingTids /\ tid \notin PendingTids')
            /\ (tid \in PendingTids' /\ tid \notin PendingTids) => tid \in QueuedTids
            /\ (tid \in QueuedTids' /\ tid \notin QueuedTids) => tid \in OwnedTids
            /\ tid \in OwnedTids' => tid \in OwnedTids
            /\ Gone(tid) => Gone(tid)']_vars

\* a track that was promoted and played has been removed, and a fill has
\* ended since
C34_Witness ==
    \E gone \in AllTids :
        /\ Gone(gone)
        /\ start_of[gone] >= 0
        /\ gone \in cancelled
        /\ pc = "return"

\* while the session plays, a pending track becomes active
EventuallyPromoted ==
    \A tid \in TrackIds :
        (tid \in PendingTids) ~> (tid \in ActiveTids \/ transport_state # "Playing")
\* start_frame of the track at position i of the active list after the step
StartAt(i) == start_of'[active_tracks'[i].tid]
\* the tracks a fill promotes are appended in start_frame order and none of
\* them starts after a track the fill leaves pending
HeapOrder ==
    RenderCompletes
        => /\ \A i, j \in 1..Len(active_tracks') :
                (i < j /\ active_tracks'[i].tid \in promoted'
                       /\ active_tracks'[j].tid \in promoted') => StartAt(i) <= StartAt(j)
           /\ \A tid \in promoted', later \in PendingTids' : start_of'[tid] <= start_of'[later]
\* every track is promoted after the tracks of smaller start_frame only
GlobalOrder ==
    RenderCompletes
        => \A i, j \in 1..Len(active_tracks') : i < j => StartAt(i) <= StartAt(j)

\* C35 as stated: while the transport stays Playing, looping is disabled, no
\* Stop arrives and fills keep occurring, every pending track is eventually
\* promoted, and tracks are promoted in non-decreasing start_frame order.
C35_PromotedInStartFrameOrder ==
    /\ EventuallyPromoted
    /\ [][GlobalOrder]_vars

\* C35 amended: every pending track is eventually promoted, and of the
\* tracks that are pending together one with a smaller start_frame is
\* promoted no later than one with a larger start_frame; a track scheduled
\* late with an early start_frame is promoted after the tracks already active.
C35_PromotedInHeapOrder ==
    /\ EventuallyPromoted
    /\ [][HeapOrder]_vars

\* a track scheduled while the session plays became active after a track of
\* a later start_frame
C35_Witness ==
    /\ Len(active_tracks) = 2
    /\ start_of[active_tracks[1].tid] > start_of[active_tracks[2].tid]
    /\ transport_state = "Playing"

\* the tracks as the control thread built them
BuiltTracks == TrackPool \cup MixPool \cup RestartPool
\* the active track of that id after the step
ActiveAfter(tid) ==
    active_tracks'[CHOOSE i \in 1..Len(active_tracks') : active_tracks'[i].tid = tid]

\* C36: a ParamChange or RestartTrack applied while its target is pending
\* leaves the pending heap as it is, and nothing else changes a pending
\* track: the fill that promotes it renders the track as it was built, with
\* the gain and pan it was scheduled with.
C36_PendingTargetIsUntouched ==
    [][/\ Applies({"ParamChange", "RestartTrack"}) => scheduled' = scheduled
       /\ \A e \in scheduled' : e.track \in BuiltTracks
       /\ RenderCompletes
            => \A tid \in promoted' :
                 \E e \in scheduled :
                    /\ e.track.tid = tid
                    /\ ActiveAfter(tid) = fill_next_samples(e.track, Silence(frame_size)).track
                    /\ e.track.kind = "GainPan"
                         => /\ ActiveAfter(tid).gain = e.track.gain
                            /\ ActiveAfter(tid).pan = e.track.pan]_vars

\* the fill entered at frame 1 applied a ParamChange or RestartTrack for the
\* GainPanTrack, then promoted it, and it has gain 1 and pan 0 as built
C36_Witness ==
    /\ pc = "return"
    /\ drained >= 1
    /\ fill_frame = 1
    /\ 3 \in promoted
    /\ \E i \in 1..Len(active_tracks) :
         /\ active_tracks[i].tid = 3
         /\ active_tracks[i].gain = 1
         /\ active_tracks[i].pan = 0

\* the Playing fill that completes in this step wraps
WrapCompletes ==
    RenderCompletes /\ looping_enabled /\ current_frame + frame_size >= loop_end_frame

\* C37: a fill that wraps moves current_frame to loop_start_frame and
\* re-syncs the clock, and treats the tracks as any other fill does: the due
\* tracks leave the heap, the tracks that were active stay active in their
\* order, and every active track is left where its own fill_next_samples
\* left it, not rewound.
C37_WrapLeavesTracksAlone ==
    [][WrapCompletes
        => /\ current_frame' = loop_start_frame
           /\ tempo_clock' = advance_by(ClockReset(tempo_clock), loop_start_frame)
           /\ scheduled' = { e \in scheduled : e.start_frame > current_frame }
           /\ Len(active_tracks') = Len(rendered')
           /\ \A i \in 1..Len(active_tracks) : active_tracks'[i].tid = active_tracks[i].tid
           /\ \A i \in 1..Len(rendered') :
                active_tracks'[i]
                    = fill_next_samples(TrackBefore(rendered'[i]), Silence(frame_size)).track
           /\ <<looping_enabled, loop_points, loop_start_frame, loop_end_frame,
                transport_state>>' =
              <<looping_enabled, loop_points, loop_start_frame, loop_end_frame,
                transport_state>>]_vars

\* a fill has wrapped back to the loop start and the WavTrack it rendered is
\* still active, at the end of its data
C37_Witness ==
    /\ pc = "return"
    /\ looping_enabled
    /\ fill_frame + frame_size >= loop_end_frame
    /\ current_frame = loop_start_frame
    /\ \E i \in 1..Len(active_tracks) :
         /\ active_tracks[i].kind = "Wav"
         /\ active_tracks[i].position = Len(active_tracks[i].samples)
         /\ \E k \in 1..Len(rendered) : rendered[k] = active_tracks[i].tid

\* the loop endpoints in frames
LoopFrames == <<loop_start_frame, loop_end_frame>>

\* C38: loop_start_frame and loop_end_frame change only in the step that
\* applies a SetLoop with enabled = true: the steps that apply SetTempo, a
\* SetLoop with enabled = false, Play, Pause or Stop leave both unchanged, so
\* the frames computed at the old tempo survive a tempo change; and the step
\* that applies any SetLoop leaves current_frame, the transport state and the
\* tempo clock unchanged.
C38_LoopFramesChangeOnlyOnSetLoop ==
    [][/\ LoopFrames' # LoopFrames
            => Applies({"SetLoop"}) /\ Head(automation_events).enabled
       /\ Applies({"SetTempo", "Play", "Pause", "Stop"}) => LoopFrames' = LoopFrames
       /\ (Applies({"SetLoop"}) /\ ~Head(automation_events).enabled)
            => LoopFrames' = LoopFrames
       /\ Applies({"SetLoop"})
            => /\ current_frame' = current_frame
               /\ transport_state' = transport_state
               /\ tempo_clock' = tempo_clock]_vars

\* SetLoop(.. -> 1.2.1) was applied at 2.5 frames per tick (end frame 5) and a
\* SetTempo to 60 BPM after it: the end is still frame 5, not 10
C38_Witness ==
    /\ pc = "drain"
    /\ drained >= 2
    /\ looping_enabled
    /\ tempo_clock.bpm # InitialTempo.bpm
    /\ loop_points.end_beat = 2
    /\ loop_end_frame = 5

\* the bars of the triples converted back and forth
MaxBar == 3

\* LoopPoints whose start is the triple <<bar, beat, tick>>
PointsAt(bbt) ==
    [start_bar |-> bbt[1], start_beat |-> bbt[2], start_tick |-> bbt[3],
     end_bar |-> bbt[1], end_beat |-> bbt[2], end_tick |-> bbt[3]]

\* C39: on the clock's time signature and ticks_per_beat, bbt_to_tick_count of
\* the triple bar_beat_tick returns for tick_counter = t is t, and for every
\* triple with bar >= 1, 1 <= beat <= beats_per_bar, 1 <= tick <= ticks_per_beat
\* bar_beat_tick of the converted tick count is the triple.  The second half
\* depends on the clock through its time signature and ticks_per_beat only; it
\* is evaluated for bars 1..MaxBar on the clocks that have not advanced yet,
\* which take every time signature.
C39_BbtAndTicksAreInverse ==
    /\ bbt_to_tick_count(clk, PointsAt(bar_beat_tick(clk)), TRUE) = clk.tick_counter
    /\ total_frames = 0 =>
       \A bar \in 1..MaxBar :
         \A beat \in 1..clk.time_signature.beats_per_bar :
           \A tick \in 1..clk.ticks_per_beat :
             LET t == bbt_to_tick_count(clk, PointsAt(<<bar, beat, tick>>), TRUE)
             IN  bar_beat_tick([clk EXCEPT !.tick_counter = t]) = <<bar, beat, tick>>

\* the clock is past its first bar, in a later beat of a 3/4 bar, on the
\* second tick of the beat
C39_Witness ==
    LET bbt == bar_beat_tick(clk)
    IN  /\ clk.time_signature.beats_per_bar = 3
        /\ bbt[1] > 1
        /\ bbt[2] > 1
        /\ bbt[3] > 1
        /\ clk.tick_counter = 3 * clk.ticks_per_beat * (bbt[1] - 1)
                              + clk.ticks_per_beat * (bbt[2] - 1) + 1

\* C40: no SetLoop the queue delivers, one with a bar, beat or tick of 0
\* included, makes the fill fail or leaves a wrapped-around loop frame: the
\* fill never panics and neither stored loop frame is the saturated u64::MAX.
C40_SetLoopNeverUnderflows ==
    /\ pc # "panic"
    /\ loop_start_frame # U64Max
    /\ loop_end_frame # U64Max

=============================================================================
